---- MODULE Spec2Model ----
(***************************************************************************)
(* A model of the cache of FractalthornsAPI (src/src/fractalthorns_api.py):*)
(* the per-category caches, the purge cooldown, the get-or-fetch           *)
(* coroutines and the two bulk gathers.  Time is counted in minutes.       *)
(* Coroutines are tasks; the code between two awaits is one atomic step,   *)
(* as it is under asyncio's single-threaded event loop.                    *)
(***************************************************************************)
EXTENDS Integers, Sequences, FiniteSets, TLC

(* ------------------------------ bounds --------------------------------- *)

\* Number of coroutines the callers may have running at once.
NTasks == 2

\* Number of children the TaskGroups may have running at once.
NKids == 2

\* Number of times the clock may advance in one behaviour.
MaxTicks == 2

\* Number of calls the callers make in one behaviour.
MaxCalls == 2

\* Number of distinct payloads the upstream site may answer with.
MaxVer == 2

\* Number of saves the callers start in one behaviour.
MaxSaves == 2

\* Number of restarts of the process in one behaviour.
MaxRestarts == 1

\* Number of I/O faults (failed file operations, damaged files).
MaxFaults == 1

(* ----------------------------- constants ------------------------------- *)

NEWS_ITEMS == "news"
IMAGES == "images"
IMAGE_CONTENTS == "image contents"
IMAGE_DESCRIPTIONS == "image descriptions"
SKETCHES == "sketches"
SKETCH_CONTENTS == "sketch contents"
CHAPTERS == "chapters"
RECORDS == "records"
RECORD_CONTENTS == "record contents"
SEARCH_RESULTS == "search results"
CURRENT_SPLASH == "current splash"
SPLASH_PAGES == "splash pages"
FULL_RECORD_CONTENTS == "full record contents"
FULL_IMAGE_DESCRIPTIONS == "full image descriptions"
CACHE_METADATA == "cache metadata"

\* The categories that own a cache field (all but the metadata).
DataCaches ==
    { NEWS_ITEMS, IMAGES, IMAGE_CONTENTS, IMAGE_DESCRIPTIONS, SKETCHES,
      SKETCH_CONTENTS, CHAPTERS, RECORDS, RECORD_CONTENTS, SEARCH_RESULTS,
      CURRENT_SPLASH, SPLASH_PAGES, FULL_RECORD_CONTENTS,
      FULL_IMAGE_DESCRIPTIONS }

CacheTypes == DataCaches \cup { CACHE_METADATA }

\* The categories whose field is a tuple-or-None rather than a dict.
SingletonCaches ==
    { NEWS_ITEMS, CHAPTERS, CURRENT_SPLASH, FULL_RECORD_CONTENTS,
      FULL_IMAGE_DESCRIPTIONS }

KeyedCaches == DataCaches \ SingletonCaches

\* __CACHE_DURATION, in minutes.
CACHE_DURATION ==
    [ c \in DataCaches |->
        CASE c \in { NEWS_ITEMS, IMAGES, SKETCHES, CHAPTERS, RECORDS,
                     SEARCH_RESULTS } -> 4 * 60
          [] c \in { IMAGE_DESCRIPTIONS, RECORD_CONTENTS } -> 12 * 60
          [] c \in { CURRENT_SPLASH, SPLASH_PAGES } -> 5
          [] OTHER -> 24 * 60 ]

\* __CACHE_PURGE_COOLDOWN, in minutes.
CACHE_PURGE_COOLDOWN ==
    [ c \in DataCaches |->
        CASE c \in { NEWS_ITEMS, IMAGES, SKETCHES, CHAPTERS, RECORDS,
                     SEARCH_RESULTS } -> 20
          [] c \in { IMAGE_DESCRIPTIONS, RECORD_CONTENTS } -> 60
          [] c \in { CURRENT_SPLASH, SPLASH_PAGES } -> 5
          [] OTHER -> 120 ]

\* InvalidPurgeReasons, and the outcome of a call that raised nothing.
CACHE_PURGE == "Too soon since last cache purge"
INVALID_CACHE == "Not a valid cache type"
OK == "ok"

(* ------------------------------ values --------------------------------- *)

\* Python's None, as a dict key (the no-identifier alias) and as a time.
None == "None"
NoTime == -1

\* The singleton caches hold one entry; it is kept under this key, and a
\* singleton that is None is the empty map.
Single == "_"

\* Identifying names of the items the upstream site serves.
Names == { "a", "b" }

\* The list the upstream site answers all_images / full_episodic with.
UpstreamList == << "a", "b" >>

Vers == 1 .. MaxVer

\* An item as parsed from an upstream answer.
Item(n, v) == [ name |-> n, v |-> v ]
NoItem == Item(None, 0)

\* A cache entry: the tuple (value, cache time).
Entry(val, at) == [ val |-> val, at |-> at ]

EmptyMap == [ k \in {} |-> Entry(NoItem, NoTime) ]

\* dict.update({k: e})
Put(m, k, e) == [ x \in DOMAIN m \cup { k } |-> IF x = k THEN e ELSE m[x] ]

\* The task slots: the first NTasks for coroutines the callers start, the
\* others for the children of a gather's TaskGroup.
Tasks == 1 .. (NTasks + NKids)
Kids == (NTasks + 1) .. (NTasks + NKids)

\* A file: absent, holding text json.loads rejects (empty, cut short), or
\* holding the JSON of a body.
NoFile == [ exists |-> FALSE, ok |-> FALSE, body |-> EmptyMap ]
JunkFile == [ exists |-> TRUE, ok |-> FALSE, body |-> EmptyMap ]
JsonFile(b) == [ exists |-> TRUE, ok |-> TRUE, body |-> b ]

(* ------------------------------- state --------------------------------- *)

VARIABLES
    now,                     \* dt.datetime.now(dt.UTC)
    ticks,                   \* how often the clock has advanced
    calls,                   \* how many calls the callers have made
    cached,                  \* the __cached_* fields, by category
    last_all_images_cache,   \* __last_all_images_cache
    last_all_sketches_cache, \* __last_all_sketches_cache
    last_full_episodic_cache,\* __last_full_episodic_cache
    last_cache_purge,        \* __last_cache_purge
    cache_saved,             \* __cache_saved
    task,                    \* the live coroutines
    last,                    \* what the last step did (its call and outcome)
    gathered,                \* history: the gathers that have ever completed
    scope,                   \* the categories this run's callers work on
    disk,                    \* the cache files, by category
    bak,                     \* their backup siblings (.bak)
    loading,                 \* the load_cache coroutines still to run
    saves,                   \* how many saves the callers have started
    restarts,                \* how often the process has been restarted
    faults,                  \* how many I/O faults have happened
    purge_cooldowns,         \* frg.bot_data.purge_cooldowns, by user
    purging                  \* the purge commands suspended in send_message

vars ==
    << now, ticks, calls, cached, last_all_images_cache, last_all_sketches_cache,
       last_full_episodic_cache, last_cache_purge, cache_saved, task, last,
       gathered, scope, disk, bak, loading, saves, restarts, faults,
       purge_cooldowns, purging >>

\* The cache object's fields as one value, for the synchronous helpers.
Store ==
    [ cached |-> cached,
      last_all_images_cache |-> last_all_images_cache,
      last_all_sketches_cache |-> last_all_sketches_cache,
      last_full_episodic_cache |-> last_full_episodic_cache,
      last_cache_purge |-> last_cache_purge,
      cache_saved |-> cache_saved ]

SetStore(s) ==
    /\ cached' = s.cached
    /\ last_all_images_cache' = s.last_all_images_cache
    /\ last_all_sketches_cache' = s.last_all_sketches_cache
    /\ last_full_episodic_cache' = s.last_full_episodic_cache
    /\ last_cache_purge' = s.last_cache_purge
    /\ cache_saved' = s.cache_saved

StoreUnchanged ==
    UNCHANGED << cached, last_all_images_cache, last_all_sketches_cache,
                 last_full_episodic_cache, last_cache_purge, cache_saved >>

\* A task slot: the coroutine it runs, where it is suspended, its outcome.
NoTask ==
    [ op |-> "none", arg |-> None, pc |-> "free", res |-> NoItem,
      err |-> OK, allowed |-> NoTime, tmp |-> NoItem, parent |-> 0 ]

\* The step record of a step that is no call's return.
NoStep ==
    [ op |-> "none", cache |-> None, key |-> None, flag |-> FALSE,
      outcome |-> OK, allowed |-> NoTime, val |-> NoItem, out |-> EmptyMap,
      retry |-> FALSE, t |-> 0, gather |-> "-", user |-> None ]

\* The object as __init__ leaves it (nothing loaded from disk).
Constructed ==
    /\ now = 0
    /\ ticks = 0
    /\ calls = 0
    /\ cached = [ c \in DataCaches |-> EmptyMap ]
    /\ last_all_images_cache = NoTime
    /\ last_all_sketches_cache = NoTime
    /\ last_full_episodic_cache = NoTime
    /\ last_cache_purge = [ c \in {} |-> 0 ]
    /\ cache_saved = [ c \in CacheTypes |-> TRUE ]
    /\ task = [ t \in Tasks |-> NoTask ]
    /\ last = NoStep
    /\ gathered = {}
    /\ disk = [ c \in CacheTypes |-> NoFile ]
    /\ bak = [ c \in CacheTypes |-> NoFile ]
    /\ loading = {}
    /\ saves = 0
    /\ restarts = 0
    /\ faults = 0
    /\ purge_cooldowns = EmptyMap
    /\ purging = {}

\* A caller makes one more call.
Called == calls < MaxCalls /\ calls' = calls + 1

(* ------------------------------ expiry --------------------------------- *)

\* A freshness test that takes the instant cache time + duration for stale.
IsStale_Inclusive(c, at, t) == t >= at + CACHE_DURATION[c]

\* The freshness test every fetch path and get_cached_items repeats:
\* now > cache time + __CACHE_DURATION[cache].
IsStale(c, at, t) == t > at + CACHE_DURATION[c]

\* "key not in cache or now > cache[key][1] + duration"
MissingOrStale(s, c, k, t) ==
    \/ k \notin DOMAIN s.cached[c]
    \/ IsStale(c, s.cached[c][k].at, t)

(* ------------------------------- purge --------------------------------- *)

\* A cooldown test that still refuses at the instant last purge + cooldown.
PurgeTooSoon_Inclusive(s, cache, force, t) ==
    /\ ~force
    /\ cache \in DOMAIN s.last_cache_purge
    /\ t <= s.last_cache_purge[cache] + CACHE_PURGE_COOLDOWN[cache]

\* purge_cache's cooldown test (the if that raises CACHE_PURGE).
PurgeTooSoon(s, cache, force, t) ==
    /\ ~force
    /\ cache \in DOMAIN s.last_cache_purge
    /\ t < s.last_cache_purge[cache] + CACHE_PURGE_COOLDOWN[cache]

\* The field each arm of purge_cache's match statement assigns.
PurgedField(cache) ==
    CASE cache = SKETCHES -> IMAGES
      [] cache = SKETCH_CONTENTS -> IMAGE_CONTENTS
      [] OTHER -> cache

\* The arms of purge_cache's match statement, for a purgeable category.
PurgeClear(s, cache) ==
    [ s EXCEPT
        !.cached[PurgedField(cache)] = EmptyMap,
        !.last_all_images_cache = IF cache = IMAGES THEN NoTime ELSE @,
        !.last_all_sketches_cache = IF cache = SKETCHES THEN NoTime ELSE @,
        !.last_full_episodic_cache = IF cache = CHAPTERS THEN NoTime ELSE @ ]

\* A purge that, when refused for its cooldown, has already emptied the
\* category.
PurgeCache_ClearsFirst(s, cache, force, t) ==
    IF PurgeTooSoon(s, cache, force, t)
    THEN [ s |-> PurgeClear(s, cache), outcome |-> CACHE_PURGE,
           allowed |-> s.last_cache_purge[cache] + CACHE_PURGE_COOLDOWN[cache] ]
    ELSE IF cache \notin DataCaches
    THEN [ s |-> s, outcome |-> INVALID_CACHE, allowed |-> NoTime ]
    ELSE [ s |-> [ PurgeClear(s, cache) EXCEPT
                     !.last_cache_purge = Put(@, cache, t) ],
           outcome |-> OK, allowed |-> NoTime ]

\* A purge whose cooldown also runs from the cache time of a singleton's
\* entry.
PurgeCache_FromFetch(s, cache, force, t) ==
    IF /\ ~force
       /\ cache \in SingletonCaches
       /\ Single \in DOMAIN s.cached[cache]
       /\ t < s.cached[cache][Single].at + CACHE_PURGE_COOLDOWN[cache]
    THEN [ s |-> s, outcome |-> CACHE_PURGE,
           allowed |-> s.cached[cache][Single].at
                         + CACHE_PURGE_COOLDOWN[cache] ]
    ELSE IF PurgeTooSoon(s, cache, force, t)
    THEN [ s |-> s, outcome |-> CACHE_PURGE,
           allowed |-> s.last_cache_purge[cache] + CACHE_PURGE_COOLDOWN[cache] ]
    ELSE IF cache \notin DataCaches
    THEN [ s |-> s, outcome |-> INVALID_CACHE, allowed |-> NoTime ]
    ELSE [ s |-> [ PurgeClear(s, cache) EXCEPT
                     !.last_cache_purge = Put(@, cache, t) ],
           outcome |-> OK, allowed |-> NoTime ]

\* purge_cache(cache, force_purge=force) at time t: the store it leaves, and
\* whether it returned (OK) or raised CachePurgeError(reason, allowed_time).
PurgeCache(s, cache, force, t) ==
    IF PurgeTooSoon(s, cache, force, t)
    THEN [ s |-> s, outcome |-> CACHE_PURGE,
           allowed |-> s.last_cache_purge[cache] + CACHE_PURGE_COOLDOWN[cache] ]
    ELSE IF cache \notin DataCaches
    THEN [ s |-> s, outcome |-> INVALID_CACHE, allowed |-> NoTime ]
    ELSE [ s |-> [ PurgeClear(s, cache) EXCEPT
                     !.last_cache_purge = Put(@, cache, t) ],
           outcome |-> OK, allowed |-> NoTime ]

\* A caller (the purge command) calls purge_cache.
purge_cache(cache, force) ==
    LET r == PurgeCache(Store, cache, force, now)
    IN  /\ cache \in scope
        /\ SetStore(r.s)
        /\ last' = [ NoStep EXCEPT !.op = "purge_cache", !.cache = cache,
                       !.flag = force, !.outcome = r.outcome,
                       !.allowed = r.allowed, !.t = now ]
        /\ Called
        /\ UNCHANGED << now, ticks, task, gathered, scope, disk, bak, loading, saves, restarts, faults, purge_cooldowns, purging >>

(* --------------------------- the purge command ------------------------- *)

\* frg.USER_PURGE_COOLDOWN (12 hours), in minutes.
USER_PURGE_COOLDOWN == 12 * 60

\* The users who send the command (str(ctx.author.id)), and the ones the
\* environment lists in BOT_ADMIN_USERS.
Users == { "admin", "user" }
BOT_ADMIN_USERS == { "admin" }

\* The command's refusals.
UNAUTHORIZED == "you cannot do that."
USER_COOLDOWN == "you cannot do that. try again"

\* The categories the command's cache option offers, besides "all".
PurgeChoices ==
    CacheTypes \ { CACHE_METADATA, FULL_RECORD_CONTENTS, IMAGE_DESCRIPTIONS }

\* The categories purge_all walks, in the order of the enum.
PurgeAllOrder ==
    << NEWS_ITEMS, IMAGES, IMAGE_CONTENTS, IMAGE_DESCRIPTIONS, SKETCHES,
       SKETCH_CONTENTS, CHAPTERS, RECORDS, RECORD_CONTENTS, SEARCH_RESULTS,
       CURRENT_SPLASH, SPLASH_PAGES >>

\* A per-user test that forgets the user's recorded purges.
UserTooSoon_Never(pc, user, cache, t) == FALSE

\* The command's per-user test: the user has a purge of the category
\* recorded, and now < that time + USER_PURGE_COOLDOWN.
UserTooSoon(pc, user, cache, t) ==
    /\ user \in DOMAIN pc
    /\ cache \in DOMAIN pc[user]
    /\ t < pc[user][cache] + USER_PURGE_COOLDOWN

\* purge_cooldowns[user].update({cache: now}), the user's dict created first
\* if there is none.
RecordPurge(pc, user, cache, t) ==
    Put(pc, user,
        Put(IF user \in DOMAIN pc THEN pc[user] ELSE EmptyMap, cache, t))

\* The command for one category, up to its first await: the admin test of a
\* forced purge, the per-user test of a non-forced one, and the call of
\* purge_cache. out holds the outcome of purge_cache if it was called;
\* record tells whether the else branch (which records the user's purge
\* after its send_message) is entered.
Purge(pc, s, user, cache, force, t) ==
    IF force /\ user \notin BOT_ADMIN_USERS
    THEN [ s |-> s, out |-> EmptyMap, outcome |-> UNAUTHORIZED,
           record |-> FALSE ]
    ELSE IF force
    THEN LET r == PurgeCache(s, cache, TRUE, t)
         IN  [ s |-> r.s, out |-> Put(EmptyMap, cache, r.outcome),
               outcome |-> r.outcome, record |-> FALSE ]
    ELSE IF UserTooSoon(pc, user, cache, t)
    THEN [ s |-> s, out |-> EmptyMap, outcome |-> USER_COOLDOWN,
           record |-> FALSE ]
    ELSE LET r == PurgeCache(s, cache, FALSE, t)
         IN  [ s |-> r.s, out |-> Put(EmptyMap, cache, r.outcome),
               outcome |-> r.outcome, record |-> r.outcome = OK ]

\* The commands that may be suspended in the else branch: who sent it, for
\* which category, and as which of the callers' calls.
PurgeCommands == [ user : Users, cache : PurgeChoices, id : 0 .. MaxCalls ]

\* /purge cache force: the command runs to its first await.
purge(user, cache, force) ==
    LET r == Purge(purge_cooldowns, Store, user, cache, force, now)
    IN  /\ cache \in scope \cap PurgeChoices
        /\ SetStore(r.s)
        /\ purging' = IF r.record
                      THEN purging \cup { [ user |-> user, cache |-> cache,
                                            id |-> calls ] }
                      ELSE purging
        /\ last' = [ NoStep EXCEPT !.op = "purge", !.cache = cache,
                       !.user = user, !.flag = force, !.outcome = r.outcome,
                       !.out = r.out, !.t = now ]
        /\ Called
        /\ UNCHANGED << now, ticks, task, gathered, scope, disk, bak, loading,
                        saves, restarts, faults, purge_cooldowns >>

\* send_message returned in the else branch: the user's purge is recorded at
\* the time it is now (the save of the bot data that follows changes no
\* field).
purge_sent(p) ==
    /\ p \in purging
    /\ purge_cooldowns' = RecordPurge(purge_cooldowns, p.user, p.cache, now)
    /\ purging' = purging \ { p }
    /\ last' = [ NoStep EXCEPT !.op = "purge_sent", !.cache = p.cache,
                   !.user = p.user, !.t = now ]
    /\ StoreUnchanged
    /\ UNCHANGED << now, ticks, calls, task, gathered, scope, disk, bak,
                    loading, saves, restarts, faults >>

\* send_message raised in the else branch: the command ends there.
purge_unsent(p) ==
    /\ p \in purging
    /\ faults < MaxFaults
    /\ faults' = faults + 1
    /\ purging' = purging \ { p }
    /\ last' = [ NoStep EXCEPT !.op = "purge_unsent", !.cache = p.cache,
                   !.user = p.user, !.outcome = "failed", !.t = now ]
    /\ StoreUnchanged
    /\ UNCHANGED << now, ticks, calls, task, gathered, scope, disk, bak,
                    loading, saves, restarts, purge_cooldowns >>

\* purge_all's loop from its i-th category on. user is the dict the command
\* read before the loop (pc0[user], or None); the purges the loop records go
\* to the bot data (pc).
RECURSIVE PurgeAll(_, _, _, _, _, _, _, _)
PurgeAll(i, pc0, pc, s, out, user, force, t) ==
    IF i > Len(PurgeAllOrder)
    THEN [ s |-> s, pc |-> pc, out |-> out ]
    ELSE LET cache == PurgeAllOrder[i]
             r == PurgeCache(s, cache, force, t)
         IN  IF ~force /\ UserTooSoon(pc0, user, cache, t)
             THEN PurgeAll(i + 1, pc0, pc, s, out, user, force, t)
             ELSE PurgeAll(i + 1, pc0,
                           IF ~force /\ r.outcome = OK
                           THEN RecordPurge(pc, user, cache, t) ELSE pc,
                           r.s, Put(out, cache, r.outcome), user, force, t)

\* /purge all force: the admin test of the purge command, then purge_all
\* (which awaits nothing before its loop has ended).
purge_all(user, force) ==
    LET r == IF force /\ user \notin BOT_ADMIN_USERS
             THEN [ s |-> Store, pc |-> purge_cooldowns, out |-> EmptyMap ]
             ELSE PurgeAll(1, purge_cooldowns, purge_cooldowns, Store,
                           EmptyMap, user, force, now)
    IN  /\ SetStore(r.s)
        /\ purge_cooldowns' = r.pc
        /\ last' = [ NoStep EXCEPT !.op = "purge_all", !.user = user,
                       !.flag = force, !.out = r.out, !.t = now,
                       !.outcome = IF force /\ user \notin BOT_ADMIN_USERS
                                   THEN UNAUTHORIZED ELSE OK ]
        /\ Called
        /\ UNCHANGED << now, ticks, task, gathered, scope, disk, bak, loading,
                        saves, restarts, faults, purging >>

(* ------------------------------- clock --------------------------------- *)

\* The instants at which a freshness or cooldown test on a category the
\* callers work on changes its answer.
Deadlines ==
    UNION { { cached[c][k].at + CACHE_DURATION[c] : k \in DOMAIN cached[c] }
            : c \in DataCaches \cap scope }
    \cup { last_cache_purge[c] + CACHE_PURGE_COOLDOWN[c]
           : c \in DOMAIN last_cache_purge \cap scope }
    \cup { t + CACHE_DURATION[IMAGES]
           : t \in { x \in { last_all_images_cache } :
                         x # NoTime /\ IMAGES \in scope } }
    \cup { t + CACHE_DURATION[SKETCHES]
           : t \in { x \in { last_all_sketches_cache } :
                         x # NoTime /\ SKETCHES \in scope } }
    \cup { t + CACHE_DURATION[CHAPTERS]
           : t \in { x \in { last_full_episodic_cache } :
                         x # NoTime /\ CHAPTERS \in scope } }
    \cup UNION { { purge_cooldowns[u][c] + USER_PURGE_COOLDOWN
                    : c \in DOMAIN purge_cooldowns[u] \cap scope }
                  : u \in DOMAIN purge_cooldowns }

\* Those of them that lie after t.
LaterDeadlines(t) == { d \in Deadlines : d > t }

\* Time passes: by a minute, or up to a later instant that matters.
Tick ==
    /\ ticks < MaxTicks
    /\ \E t \in { now + 1 } \cup LaterDeadlines(now) :
          now' = t
    /\ ticks' = ticks + 1
    /\ last' = NoStep
    /\ StoreUnchanged
    /\ UNCHANGED << calls, task, gathered, scope, disk, bak, loading, saves, restarts, faults, purge_cooldowns, purging >>

\* Time passes while nothing is in flight: no coroutine is suspended and
\* no load is pending.
Idle ==
    /\ \A t \in Tasks : task[t].pc = "free"
    /\ loading = {}
    /\ Tick

(* -------------------------- get_cached_items --------------------------- *)

\* An entry as get_cached_items reports it: (value, cache time, expiry time).
Reported(c, e) == [ val |-> e.val, at |-> e.at, exp |-> e.at + CACHE_DURATION[c] ]

\* The metadata dict get_cached_items builds; a timestamp that is None cannot
\* be added to a timedelta, so the call raises TypeError.
ReportedMetadata(s) ==
    IF NoTime \in { s.last_all_images_cache, s.last_all_sketches_cache,
                    s.last_full_episodic_cache }
    THEN [ outcome |-> "TypeError", out |-> EmptyMap ]
    ELSE [ outcome |-> OK,
           out |->
             [ k \in { "last_all_images_cache", "last_all_sketches_cache",
                       "last_full_episodic_cache" } \cup
                     DOMAIN s.last_cache_purge |->
                 CASE k = "last_all_images_cache" ->
                        [ val |-> NoItem, at |-> s.last_all_images_cache,
                          exp |-> s.last_all_images_cache
                                    + CACHE_DURATION[IMAGES] ]
                   [] k = "last_all_sketches_cache" ->
                        [ val |-> NoItem, at |-> s.last_all_sketches_cache,
                          exp |-> s.last_all_sketches_cache
                                    + CACHE_DURATION[SKETCHES] ]
                   [] k = "last_full_episodic_cache" ->
                        [ val |-> NoItem, at |-> s.last_full_episodic_cache,
                          exp |-> s.last_full_episodic_cache
                                    + CACHE_DURATION[CHAPTERS] ]
                   [] OTHER ->
                        [ val |-> NoItem, at |-> s.last_cache_purge[k],
                          exp |-> s.last_cache_purge[k]
                                    + CACHE_PURGE_COOLDOWN[k] ] ] ]

\* get_cached_items(cache, ignore_stale=ignore_stale) at time t: what it
\* returns (out; None is the empty map) or raises (outcome).  For a dict the
\* loop pops a stale entry from the dict it is iterating, and the iterator
\* then raises RuntimeError (dictionary changed size during iteration).
GetCachedItems(s, cache, ignore_stale, t) ==
    IF cache = CACHE_METADATA THEN ReportedMetadata(s)
    ELSE LET m == s.cached[cache]
             stale == { k \in DOMAIN m : IsStale(cache, m[k].at, t) }
         IN  IF cache \in SingletonCaches
             THEN [ outcome |-> OK,
                    out |-> IF ~ignore_stale /\ stale # {}
                            THEN EmptyMap
                            ELSE [ k \in DOMAIN m |-> Reported(cache, m[k]) ] ]
             ELSE IF ~ignore_stale /\ stale # {}
             THEN [ outcome |-> "RuntimeError", out |-> EmptyMap ]
             ELSE [ outcome |-> OK,
                    out |-> [ k \in DOMAIN m |-> Reported(cache, m[k]) ] ]

\* A caller reads the cache without fetching.
get_cached_items(cache, ignore_stale) ==
    LET r == GetCachedItems(Store, cache, ignore_stale, now)
    IN  /\ cache \in scope
        /\ last' = [ NoStep EXCEPT !.op = "get_cached_items", !.cache = cache,
                       !.flag = ignore_stale, !.outcome = r.outcome,
                       !.out = r.out, !.t = now ]
        /\ StoreUnchanged
        /\ Called
        /\ UNCHANGED << now, ticks, task, gathered, scope, disk, bak, loading, saves, restarts, faults, purge_cooldowns, purging >>

\* An autocomplete callback that drops the alias from the cache's own dict:
\* what the pop would do if get_cached_items returned the dict itself.
single_image_name_Shared ==
    LET r == GetCachedItems(Store, IMAGES, TRUE, now)
    IN  /\ IMAGES \in scope
        /\ last' = [ NoStep EXCEPT !.op = "single_image_name",
                       !.cache = IMAGES, !.flag = TRUE, !.outcome = r.outcome,
                       !.out = [ k \in DOMAIN r.out \ { None } |-> r.out[k] ],
                       !.t = now ]
        /\ SetStore([ Store EXCEPT !.cached[IMAGES] =
                        [ k \in DOMAIN @ \ { None } |-> @[k] ] ])
        /\ Called
        /\ UNCHANGED << now, ticks, task, gathered, scope, disk, bak, loading, saves, restarts, faults, purge_cooldowns, purging >>

\* The autocomplete callback for image names: it reads the images with
\* ignore_stale=True, pops the alias from the dict it got, and lists the
\* keys left.  The dict is get_cached_items' deepcopy, so the pop leaves the
\* cache's dict alone.
single_image_name ==
    LET r == GetCachedItems(Store, IMAGES, TRUE, now)
    IN  /\ IMAGES \in scope
        /\ last' = [ NoStep EXCEPT !.op = "single_image_name",
                       !.cache = IMAGES, !.flag = TRUE, !.outcome = r.outcome,
                       !.out = [ k \in DOMAIN r.out \ { None } |-> r.out[k] ],
                       !.t = now ]
        /\ StoreUnchanged
        /\ Called
        /\ UNCHANGED << now, ticks, task, gathered, scope, disk, bak, loading, saves, restarts, faults, purge_cooldowns, purging >>

(* ------------------------------- tasks --------------------------------- *)

\* A new coroutine takes the lowest free slot (the slots are interchangeable).
FreeSlot(t) ==
    /\ t <= NTasks
    /\ task[t].pc = "free"
    /\ \A u \in Tasks : u < t => task[u].pc # "free"

\* A coroutine suspended in an upstream request (_make_request, session.get).
Requesting(t) == task[t].pc \in { "request", "request2" }

\* The category each fetch caches its result in.
OpCache(op) ==
    CASE op = "get_all_news" -> NEWS_ITEMS
      [] op = "get_single_image" -> IMAGES
      [] op = "get_single_sketch" -> SKETCHES
      [] op = "get_single_record" -> RECORDS
      [] op = "get_image_description" -> IMAGE_DESCRIPTIONS
      [] op = "get_record_text" -> RECORD_CONTENTS
      [] op = "get_image_contents" -> IMAGE_CONTENTS
      [] op = "get_all_images" -> IMAGES
      [] op = "get_full_episodic" -> CHAPTERS
      [] op = "get_full_record_contents" -> FULL_RECORD_CONTENTS
      [] op = "get_full_image_descriptions" -> FULL_IMAGE_DESCRIPTIONS
      [] OTHER -> None

\* The record of a task's step: the call it belongs to, what the step did
\* (request: it suspended in an upstream request; hit: it returned the
\* cached value; stored: it stored the answer and returned it; failed: it
\* raised), and whether the step is a call that repeats the call whose
\* failure was the step before.
TaskStep(op, c, k, outcome, val) ==
    [ NoStep EXCEPT !.op = op, !.cache = c, !.key = k, !.outcome = outcome,
        !.val = val, !.t = now,
        !.retry = /\ outcome \in { "request", "hit" }
                  /\ last.outcome = "failed"
                  /\ last.op = op /\ last.cache = c /\ last.key = k ]

\* What the block after a fetch's await stores: the entry under the requested
\* key, and for the alias (None) also under the name the answer carries; the
\* category is marked unsaved.
StoreFetched(s, c, k, val, t) ==
    LET m1 == Put(s.cached[c], k, Entry(val, t))
        m2 == IF k = None THEN Put(m1, m1[k].val.name, Entry(val, t)) ELSE m1
    IN  [ s EXCEPT !.cached[c] = m2, !.cache_saved[c] = FALSE ]

\* A coroutine ends: a top-level one hands its outcome to its caller and is
\* gone; a TaskGroup's child keeps it for the parent that awaits the group.
Ended(t, pc, res, err, allowed) ==
    IF task[t].parent = 0 THEN NoTask
    ELSE [ task[t] EXCEPT !.pc = pc, !.res = res, !.err = err,
                          !.allowed = allowed ]

\* The shape the single-entry fetches share (__get_all_news,
\* __get_single_image, __get_single_sketch, __get_single_record): the
\* freshness test, then either the request or the cached value.
FetchCall(t, op, c, k) ==
    /\ c \in scope
    /\ FreeSlot(t)
    /\ IF MissingOrStale(Store, c, k, now)
       THEN /\ task' = [ task EXCEPT ![t] =
                           [ NoTask EXCEPT !.op = op, !.arg = k,
                                           !.pc = "request" ] ]
            /\ last' = TaskStep(op, c, k, "request", NoItem)
       ELSE /\ task' = task
            /\ last' = TaskStep(op, c, k, "hit", cached[c][k].val)
    /\ StoreUnchanged
    /\ Called
    /\ UNCHANGED << now, ticks, gathered, scope, disk, bak, loading, saves, restarts, faults, purge_cooldowns, purging >>

\* The request's answer arrives: the entry is stored and the value returned.
FetchResp(t, op, c, val) ==
    /\ task[t].op = op
    /\ task[t].pc = "request"
    /\ LET k == task[t].arg
           s2 == StoreFetched(Store, c, k, val, now)
           res == s2.cached[c][k].val
       IN  /\ SetStore(s2)
           /\ task' = [ task EXCEPT ![t] = Ended(t, "done", res, OK, NoTime) ]
           /\ last' = TaskStep(op, c, k, "stored", res)
    /\ UNCHANGED << now, ticks, calls, gathered, scope, disk, bak, loading, saves, restarts, faults, purge_cooldowns, purging >>

\* The names an answer to a request for name k may carry: k itself, or for
\* the alias whichever item is the site's most recent one.
AnswerNames(k) == IF k = None THEN Names ELSE { k }

get_all_news(t) == FetchCall(t, "get_all_news", NEWS_ITEMS, Single)

get_all_news_resp(t, v) ==
    FetchResp(t, "get_all_news", NEWS_ITEMS, Item(Single, v))

get_single_image(t, image) == FetchCall(t, "get_single_image", IMAGES, image)

get_single_image_resp(t, v) ==
    /\ task[t].op = "get_single_image"
    /\ \E n \in AnswerNames(task[t].arg) :
        FetchResp(t, "get_single_image", IMAGES, Item(n, v))

get_single_sketch(t, sketch) ==
    FetchCall(t, "get_single_sketch", SKETCHES, sketch)

get_single_sketch_resp(t, v) ==
    /\ task[t].op = "get_single_sketch"
    /\ \E n \in AnswerNames(task[t].arg) :
        FetchResp(t, "get_single_sketch", SKETCHES, Item(n, v))

get_single_record(t, name) == FetchCall(t, "get_single_record", RECORDS, name)

get_single_record_resp(t, v) ==
    /\ task[t].op = "get_single_record"
    /\ \E n \in AnswerNames(task[t].arg) :
        FetchResp(t, "get_single_record", RECORDS, Item(n, v))

\* A description or record text as built from the item's title and the
\* answer's payload (ImageDescription.from_obj, RecordText.from_obj).
Text(k, v, title) == [ name |-> k, v |-> v, title |-> title ]

\* How a coroutine starts: called by a caller of the API (a free slot, one
\* more call), or scheduled as a child that a TaskGroup has created.
Started(t, op, c, k) ==
    IF task[t].pc = "spawned"
    THEN task[t].op = op /\ task[t].arg = k /\ calls' = calls
    ELSE FreeSlot(t) /\ c \in scope /\ Called

\* The block that ends __get_image_description and __get_record_text: the
\* title is read from the item's entry, the text is stored under the
\* requested name (a record text also under the name the alias stands for).
StoreText(s, c, inner, k, v, t) ==
    LET val == Text(k, v, s.cached[inner][k].val.v)
        m1 == Put(s.cached[c], k, Entry(val, t))
        m2 == IF c = RECORD_CONTENTS /\ k = None
              THEN Put(m1, s.cached[RECORDS][None].val.name, Entry(val, t))
              ELSE m1
    IN  [ s EXCEPT !.cached[c] = m2, !.cache_saved[c] = FALSE ]

\* The shape __get_image_description and __get_record_text share.  The call:
\* the freshness test, then the request for the text or the cached value.
TextCall(t, op, c, k) ==
    /\ Started(t, op, c, k)
    /\ IF MissingOrStale(Store, c, k, now)
       THEN /\ task' = [ task EXCEPT ![t] =
                           [ NoTask EXCEPT !.op = op, !.arg = k,
                                           !.pc = "request",
                                           !.parent = task[t].parent ] ]
            /\ last' = TaskStep(op, c, k, "request", NoItem)
       ELSE /\ task' = [ task EXCEPT ![t] =
                           Ended(t, "done", cached[c][k].val, OK, NoTime) ]
            /\ last' = TaskStep(op, c, k, "hit", cached[c][k].val)
    /\ StoreUnchanged
    /\ UNCHANGED << now, ticks, gathered, scope, disk, bak, loading, saves, restarts, faults, purge_cooldowns, purging >>

\* The text's answer arrives; the title is then asked of the single-item
\* fetch, which returns at once when the item is cached and fresh and
\* otherwise suspends in a request of its own.
TextResp(t, op, c, inner, v) ==
    /\ task[t].op = op
    /\ task[t].pc = "request"
    /\ LET k == task[t].arg
       IN  IF MissingOrStale(Store, inner, k, now)
           THEN /\ task' = [ task EXCEPT ![t].pc = "request2",
                                         ![t].tmp = Item(k, v) ]
                /\ last' = TaskStep(op, inner, k, "request", NoItem)
                /\ StoreUnchanged
           ELSE LET s2 == StoreText(Store, c, inner, k, v, now)
                    res == s2.cached[c][k].val
                IN  /\ SetStore(s2)
                    /\ task' = [ task EXCEPT ![t] =
                                   Ended(t, "done", res, OK, NoTime) ]
                    /\ last' = TaskStep(op, c, k, "stored", res)
    /\ UNCHANGED << now, ticks, calls, gathered, scope, disk, bak, loading, saves, restarts, faults, purge_cooldowns, purging >>

\* The single-item fetch's answer arrives: the item is stored, then the text.
TextItemResp(t, op, c, inner, val) ==
    /\ task[t].op = op
    /\ task[t].pc = "request2"
    /\ LET k == task[t].arg
           s1 == StoreFetched(Store, inner, k, val, now)
           s2 == StoreText(s1, c, inner, k, task[t].tmp.v, now)
           res == s2.cached[c][k].val
       IN  /\ SetStore(s2)
           /\ task' = [ task EXCEPT ![t] = Ended(t, "done", res, OK, NoTime) ]
           /\ last' = TaskStep(op, c, k, "stored", res)
    /\ UNCHANGED << now, ticks, calls, gathered, scope, disk, bak, loading, saves, restarts, faults, purge_cooldowns, purging >>

get_image_description(t, image) ==
    TextCall(t, "get_image_description", IMAGE_DESCRIPTIONS, image)

get_image_description_resp(t, v) ==
    TextResp(t, "get_image_description", IMAGE_DESCRIPTIONS, IMAGES, v)

get_image_description_image_resp(t, v) ==
    TextItemResp(t, "get_image_description", IMAGE_DESCRIPTIONS, IMAGES,
                 Item(task[t].arg, v))

get_record_text(t, name) ==
    TextCall(t, "get_record_text", RECORD_CONTENTS, name)

get_record_text_resp(t, v) ==
    TextResp(t, "get_record_text", RECORD_CONTENTS, RECORDS, v)

get_record_text_record_resp(t, v) ==
    \E n \in AnswerNames(task[t].arg) :
        TextItemResp(t, "get_record_text", RECORD_CONTENTS, RECORDS,
                     Item(n, v))

\* __get_image_contents is called: if the contents are missing or stale it
\* awaits __get_single_image, which suspends in its request or returns the
\* cached item at once; with the item in hand it suspends in the requests
\* for the picture and its thumbnail.
get_image_contents(t, image) ==
    /\ IMAGE_CONTENTS \in scope
    /\ FreeSlot(t)
    /\ IF MissingOrStale(Store, IMAGE_CONTENTS, image, now)
       THEN IF MissingOrStale(Store, IMAGES, image, now)
            THEN /\ task' = [ task EXCEPT ![t] =
                                [ NoTask EXCEPT !.op = "get_image_contents",
                                                !.arg = image,
                                                !.pc = "request" ] ]
                 /\ last' = TaskStep("get_image_contents", IMAGES, image,
                                      "request", NoItem)
            ELSE /\ task' = [ task EXCEPT ![t] =
                                [ NoTask EXCEPT !.op = "get_image_contents",
                                                !.arg = image,
                                                !.pc = "request2",
                                                !.tmp = cached[IMAGES][image].val ] ]
                 /\ last' = TaskStep("get_image_contents", IMAGE_CONTENTS,
                                      image, "request", NoItem)
       ELSE /\ task' = task
            /\ last' = TaskStep("get_image_contents", IMAGE_CONTENTS, image,
                                 "hit", cached[IMAGE_CONTENTS][image].val)
    /\ StoreUnchanged
    /\ Called
    /\ UNCHANGED << now, ticks, gathered, scope, disk, bak, loading, saves, restarts, faults, purge_cooldowns, purging >>

\* The item's answer arrives: __get_single_image stores and returns it, and
\* the coroutine suspends in the requests for the picture.
get_image_contents_image_resp(t, v) ==
    /\ task[t].op = "get_image_contents"
    /\ task[t].pc = "request"
    /\ \E n \in AnswerNames(task[t].arg) :
          /\ SetStore(StoreFetched(Store, IMAGES, task[t].arg, Item(n, v), now))
          /\ task' = [ task EXCEPT ![t].pc = "request2",
                                   ![t].tmp = Item(n, v) ]
    /\ last' = TaskStep("get_image_contents", IMAGE_CONTENTS, task[t].arg,
                         "request", NoItem)
    /\ UNCHANGED << now, ticks, calls, gathered, scope, disk, bak, loading, saves, restarts, faults, purge_cooldowns, purging >>

\* The picture has arrived and is decoded: the contents are stored under
\* the requested name; for the alias the name the alias stands for is then
\* read from the images' dict, self.__cached_images[None][0].name, which
\* raises KeyError if the dict no longer holds the alias; else the contents
\* are stored under that name too and the category is marked unsaved.
get_image_contents_resp(t, v) ==
    /\ task[t].op = "get_image_contents"
    /\ task[t].pc = "request2"
    /\ LET k == task[t].arg
           e == Entry(Item(task[t].tmp.name, v), now)
           s1 == [ Store EXCEPT !.cached[IMAGE_CONTENTS] = Put(@, k, e) ]
       IN  IF k = None /\ None \notin DOMAIN cached[IMAGES]
           THEN /\ SetStore(s1)
                /\ last' = TaskStep("get_image_contents", IMAGE_CONTENTS, k,
                                     "KeyError", NoItem)
           ELSE /\ SetStore([ s1 EXCEPT
                      !.cached[IMAGE_CONTENTS] =
                         IF k = None
                         THEN Put(@, cached[IMAGES][None].val.name, e)
                         ELSE @,
                      !.cache_saved[IMAGE_CONTENTS] = FALSE ])
                /\ last' = TaskStep("get_image_contents", IMAGE_CONTENTS, k,
                                     "stored", e.val)
    /\ task' = [ task EXCEPT ![t] = NoTask ]
    /\ UNCHANGED << now, ticks, calls, gathered, scope, disk, bak, loading, saves, restarts, faults, purge_cooldowns, purging >>

(* ------------------------------ gathers -------------------------------- *)

GatherOps == { "get_full_record_contents", "get_full_image_descriptions" }

\* The values of the gather parameter: True, False, None.
GatherModes == { "True", "False", None }

\* The coroutine a gather runs for each member, and the category it fills.
ChildOp(op) ==
    IF op = "get_full_record_contents" THEN "get_record_text"
    ELSE "get_image_description"

\* The categories a gather purges by force before it fetches, in order.
GatherPurged(full) ==
    IF full = FULL_RECORD_CONTENTS
    THEN << CHAPTERS, RECORDS, RECORD_CONTENTS >>
    ELSE << IMAGE_DESCRIPTIONS, IMAGES >>

RECURSIVE ForcePurgeAll(_, _, _)
ForcePurgeAll(s, cs, t) ==
    IF cs = << >> THEN s
    ELSE ForcePurgeAll(PurgeCache(s, Head(cs), TRUE, t).s, Tail(cs), t)

\* A staleness test that looks only at whether a collection is held.
CacheStale_NoDuration(s, full, t) == Single \notin DOMAIN s.cached[full]

\* cache_stale: no collection is held, or now > its time + duration.
CacheStale(s, full, t) ==
    \/ Single \notin DOMAIN s.cached[full]
    \/ IsStale(full, s.cached[full][Single].at, t)

\* An except clause that re-raises every CachePurgeError.
Reraised_Always(s, full) == TRUE

\* An except clause that re-raises when no collection is held.
Reraised_Inverted(s, full) == Single \notin DOMAIN s.cached[full]

\* The except clause around the gather's own purge re-raises the
\* CachePurgeError only if a collection is held.
Reraised(s, full) == Single \in DOMAIN s.cached[full]

\* A gather that purges the collection before it looks at gather=False.
GatherHead_PurgeFirst(s, full, gather, t) ==
    IF ~( gather = "True" \/ CacheStale(s, full, t) )
    THEN [ s |-> s, outcome |-> "hit", allowed |-> NoTime ]
    ELSE LET r == PurgeCache(s, full, FALSE, t)
         IN  IF gather = "False"
             THEN [ s |-> r.s, outcome |-> "ItemsUngatheredError",
                    allowed |-> NoTime ]
             ELSE IF r.outcome = CACHE_PURGE /\ Reraised(s, full)
             THEN [ s |-> s, outcome |-> CACHE_PURGE, allowed |-> r.allowed ]
             ELSE [ s |-> ForcePurgeAll(r.s, GatherPurged(full), t),
                    outcome |-> "request", allowed |-> NoTime ]

\* The gather up to its first await, at time t: it returns the held
\* collection (hit), raises ItemsUngatheredError or CachePurgeError, or
\* purges and goes on to fetch the index (request).
GatherHead(s, full, gather, t) ==
    IF ~( gather = "True" \/ CacheStale(s, full, t) )
    THEN [ s |-> s, outcome |-> "hit", allowed |-> NoTime ]
    ELSE IF gather = "False"
    THEN [ s |-> s, outcome |-> "ItemsUngatheredError", allowed |-> NoTime ]
    ELSE LET r == PurgeCache(s, full, FALSE, t)
         IN  IF r.outcome = CACHE_PURGE /\ Reraised(s, full)
             THEN [ s |-> s, outcome |-> CACHE_PURGE, allowed |-> r.allowed ]
             ELSE [ s |-> ForcePurgeAll(r.s, GatherPurged(full), t),
                    outcome |-> "request", allowed |-> NoTime ]

\* A caller calls a gather.  The forced purges have reset the index's
\* timestamp, so __get_all_images / __get_full_episodic, which the gather
\* awaits next, always finds it None and suspends in its request.
GatherCall(t, op, gather) ==
    LET full == OpCache(op)
        h == GatherHead(Store, full, gather, now)
    IN  /\ full \in scope
        /\ FreeSlot(t)
        /\ SetStore(h.s)
        /\ task' = IF h.outcome = "request"
                   THEN [ task EXCEPT ![t] =
                            [ NoTask EXCEPT !.op = op, !.arg = Single,
                                            !.pc = "request" ] ]
                   ELSE task
        /\ last' = [ TaskStep(op, full, Single, h.outcome, NoItem) EXCEPT
                       !.gather = gather, !.allowed = h.allowed,
                       !.out = IF h.outcome = "hit"
                               THEN cached[full][Single].val ELSE EmptyMap ]
        /\ Called
        /\ UNCHANGED << now, ticks, gathered, scope, disk, bak, loading, saves, restarts, faults, purge_cooldowns, purging >>

get_full_record_contents(t, gather) ==
    GatherCall(t, "get_full_record_contents", gather)

get_full_image_descriptions(t, gather) ==
    GatherCall(t, "get_full_image_descriptions", gather)

\* The elements of a sequence.
Range(q) == { q[i] : i \in 1 .. Len(q) }

\* The loop that stores every listed item with the one cache time, and the
\* alias: the first value of the dict, which the forced purge has emptied,
\* so the first item of the list.
StoreListed(m, names, v, t) ==
    LET m1 == [ x \in DOMAIN m \cup Range(names) |->
                  IF x \in Range(names) THEN Entry(Item(x, v), t) ELSE m[x] ]
    IN  Put(m1, None, m1[names[1]])

\* What __get_all_images does with the answer, at time t.
GetAllImagesStore(s, names, v, t) ==
    LET s1 == PurgeCache(s, IMAGES, TRUE, t).s
    IN  [ s1 EXCEPT
            !.cached[IMAGES] = StoreListed(@, names, v, t),
            !.last_all_images_cache = t,
            !.cache_saved[IMAGES] = FALSE,
            !.cache_saved[CACHE_METADATA] = FALSE ]

\* What __get_full_episodic does with the answer, at time t.
GetFullEpisodicStore(s, names, v, t) ==
    LET s1 == ForcePurgeAll(s, << CHAPTERS, RECORDS >>, t)
    IN  [ s1 EXCEPT
            !.cached[CHAPTERS] = Put(EmptyMap, Single, Entry(Item(Single, v), t)),
            !.cached[RECORDS] = StoreListed(@, names, v, t),
            !.last_full_episodic_cache = t,
            !.cache_saved[CHAPTERS] = FALSE,
            !.cache_saved[RECORDS] = FALSE,
            !.cache_saved[CACHE_METADATA] = FALSE ]

\* The free child slots, and a slot's place among them.
FreeKids == { u \in Kids : task[u].pc = "free" }
Rank(u) == Cardinality({ w \in FreeKids : w < u }) + 1

\* The index's answer arrives: the index is stored (s2) and the TaskGroup
\* creates one child per member; the gather then awaits the group.
GatherIndexResp(t, op, s2, members) ==
    /\ task[t].op = op
    /\ task[t].pc = "request"
    /\ Cardinality(FreeKids) >= Len(members)
    /\ SetStore(s2)
    /\ task' = [ u \in Tasks |->
                   IF u = t THEN [ task[t] EXCEPT !.pc = "group" ]
                   ELSE IF u \in FreeKids /\ Rank(u) <= Len(members)
                   THEN [ NoTask EXCEPT !.op = ChildOp(op),
                                        !.arg = members[Rank(u)],
                                        !.pc = "spawned", !.parent = t ]
                   ELSE task[u] ]
    /\ last' = TaskStep(op, OpCache(op), Single, "group", NoItem)
    /\ UNCHANGED << now, ticks, calls, gathered, scope, disk, bak, loading, saves, restarts, faults, purge_cooldowns, purging >>

get_full_image_descriptions_images_resp(t, v) ==
    GatherIndexResp(t, "get_full_image_descriptions",
                    GetAllImagesStore(Store, UpstreamList, v, now),
                    UpstreamList)

\* The members of the record gather are the records marked solved.
get_full_record_contents_episodic_resp(t, v, solved) ==
    GatherIndexResp(t, "get_full_record_contents",
                    GetFullEpisodicStore(Store, UpstreamList, v, now),
                    SelectSeq(UpstreamList, LAMBDA n : n \in solved))

\* The children of the gather in slot t.
Children(t) == { u \in Tasks : task[u].parent = t }

\* A group that is left as soon as one child has returned.
AllResolved_Some(t) == \E u \in Children(t) : task[u].pc = "done"

\* The TaskGroup is left normally once every child has returned.
AllResolved(t) == \A u \in Children(t) : task[u].pc = "done"

\* The gather resumes after the group: it builds the collection from the
\* children's results and commits it with the time of this step.
gather_commit(t) ==
    /\ task[t].pc = "group"
    /\ AllResolved(t)
    /\ LET full == OpCache(task[t].op)
           coll == [ n \in { task[u].arg : u \in Children(t) } |->
                       task[CHOOSE u \in Children(t) : task[u].arg = n].res ]
       IN  /\ SetStore([ Store EXCEPT
                 !.cached[full] = Put(EmptyMap, Single, Entry(coll, now)),
                 !.cache_saved[full] = FALSE ])
           /\ last' = [ TaskStep(task[t].op, full, Single, "stored", NoItem)
                          EXCEPT !.out = coll ]
           /\ gathered' = gathered \cup { full }
    /\ task' = [ u \in Tasks |->
                   IF u = t \/ u \in Children(t) THEN NoTask ELSE task[u] ]
    /\ UNCHANGED << now, ticks, calls, scope, disk, bak, loading, saves, restarts, faults, purge_cooldowns, purging >>

\* The gather command.  Its TaskGroup creates the two gathers (and a task
\* that sends a message); each runs to its first await when the command
\* awaits the group, the records' gather first.  If a gather raises
\* CachePurgeError the group cancels the other one, which is by then
\* suspended in its index request, and the command answers "used too
\* recently" with the first error's allowed time; else both gathers are under
\* way.
gather_all ==
    LET h1 == GatherHead(Store, FULL_RECORD_CONTENTS, "True", now)
        h2 == GatherHead(h1.s, FULL_IMAGE_DESCRIPTIONS, "True", now)
        refused == CACHE_PURGE \in { h1.outcome, h2.outcome }
    IN  /\ { FULL_RECORD_CONTENTS, FULL_IMAGE_DESCRIPTIONS } \subseteq scope
        /\ \A t \in Tasks : task[t].pc = "free"
        /\ SetStore(h2.s)
        /\ task' = IF refused THEN task
                   ELSE [ task EXCEPT
                            ![1] = [ NoTask EXCEPT
                                       !.op = "get_full_record_contents",
                                       !.arg = Single, !.pc = "request" ],
                            ![2] = [ NoTask EXCEPT
                                       !.op = "get_full_image_descriptions",
                                       !.arg = Single, !.pc = "request" ] ]
        /\ last' = [ TaskStep("gather_all", None, Single,
                              IF refused THEN CACHE_PURGE ELSE "request",
                              NoItem)
                       EXCEPT !.gather = "True",
                              !.allowed = IF h1.outcome = CACHE_PURGE
                                          THEN h1.allowed ELSE h2.allowed ]
        /\ Called
        /\ UNCHANGED << now, ticks, gathered, scope, disk, bak, loading, saves, restarts, faults, purge_cooldowns, purging >>

\* A request of one of the command's coroutines fails: the TaskGroup it
\* runs in cancels its siblings and raises in the gather, and the command's
\* TaskGroup cancels the other gather with its children.
gather_all_failed(t) ==
    /\ Requesting(t)
    /\ task' = [ u \in Tasks |->
                   IF task[u].op = "save_cache" THEN task[u] ELSE NoTask ]
    /\ last' = TaskStep(task[t].op, OpCache(task[t].op), task[t].arg,
                         "failed", NoItem)
    /\ StoreUnchanged
    /\ UNCHANGED << now, ticks, calls, gathered, scope, disk, bak, loading, saves, restarts, faults, purge_cooldowns, purging >>

(* ------------------------- more fetches -------------------------------- *)

\* str(page) and int(key) for the page numbers in use.
Pages == 1 .. 2
Str(i) == CASE i = 1 -> "1" [] i = 2 -> "2" [] OTHER -> "3"
ParseInt(x) == CHOOSE i \in 1 .. 3 : Str(i) = x

\* Search terms and types, as sequences of characters; a type is one of the
\* four literals, none of which holds the character "|" (each is kept as
\* one symbol here).
Terms == { << "x" >>, << "x", "|", "image" >> }
SearchTypes == { << "image" >>, << "sketch" >> }

\* __get_paged_splashes: the test is the usual one, but the answer replaces
\* the whole dict by the one page.
get_paged_splashes(t, page) ==
    FetchCall(t, "get_paged_splashes", SPLASH_PAGES, page)

get_paged_splashes_resp(t, v) ==
    /\ task[t].op = "get_paged_splashes"
    /\ task[t].pc = "request"
    /\ LET page == task[t].arg
           val == Item(Str(page), v)
       IN  /\ SetStore([ Store EXCEPT
                 !.cached[SPLASH_PAGES] = Put(EmptyMap, page, Entry(val, now)),
                 !.cache_saved[SPLASH_PAGES] = FALSE ])
           /\ task' = [ task EXCEPT ![t] = Ended(t, "done", val, OK, NoTime) ]
           /\ last' = TaskStep("get_paged_splashes", SPLASH_PAGES, page,
                                "stored", val)
    /\ UNCHANGED << now, ticks, calls, gathered, scope, disk, bak, loading,
                    saves, restarts, faults, purge_cooldowns, purging >>

\* __get_domain_search for the types that need no record text: the entry is
\* kept under the tuple (term, type_).
get_domain_search(t, term, type_) ==
    FetchCall(t, "get_domain_search", SEARCH_RESULTS, << term, type_ >>)

get_domain_search_resp(t, v) ==
    /\ task[t].op = "get_domain_search"
    /\ task[t].pc = "request"
    /\ LET k == task[t].arg
           val == Item("results", v)
       IN  /\ SetStore([ Store EXCEPT
                 !.cached[SEARCH_RESULTS] = Put(@, k, Entry(val, now)),
                 !.cache_saved[SEARCH_RESULTS] = FALSE,
                 !.cache_saved[RECORD_CONTENTS] = FALSE ])
           /\ task' = [ task EXCEPT ![t] = Ended(t, "done", val, OK, NoTime) ]
           /\ last' = TaskStep("get_domain_search", SEARCH_RESULTS, k,
                                "stored", val)
    /\ UNCHANGED << now, ticks, calls, gathered, scope, disk, bak, loading,
                    saves, restarts, faults, purge_cooldowns, purging >>

\* What a fetch-all returns: the values under the keys that are not None.
Listed(m) == [ k \in DOMAIN m \ { None } |-> m[k].val ]

\* __get_all_images called by a caller: the request if the timestamp is
\* None or stale, else the cached images.
get_all_images(t) ==
    /\ IMAGES \in scope
    /\ FreeSlot(t)
    /\ IF \/ last_all_images_cache = NoTime
          \/ IsStale(IMAGES, last_all_images_cache, now)
       THEN /\ task' = [ task EXCEPT ![t] =
                           [ NoTask EXCEPT !.op = "get_all_images",
                                           !.arg = Single,
                                           !.pc = "request" ] ]
            /\ last' = TaskStep("get_all_images", IMAGES, Single, "request",
                                 NoItem)
       ELSE /\ task' = task
            /\ last' = [ TaskStep("get_all_images", IMAGES, Single, "hit",
                                   NoItem)
                           EXCEPT !.out = Listed(cached[IMAGES]) ]
    /\ StoreUnchanged
    /\ Called
    /\ UNCHANGED << now, ticks, gathered, scope, disk, bak, loading, saves,
                    restarts, faults, purge_cooldowns, purging >>

get_all_images_resp(t, v) ==
    /\ task[t].op = "get_all_images"
    /\ task[t].pc = "request"
    /\ LET s2 == GetAllImagesStore(Store, UpstreamList, v, now)
       IN  /\ SetStore(s2)
           /\ last' = [ TaskStep("get_all_images", IMAGES, Single, "stored",
                                  NoItem)
                          EXCEPT !.out = Listed(s2.cached[IMAGES]) ]
    /\ task' = [ task EXCEPT ![t] = Ended(t, "done", NoItem, OK, NoTime) ]
    /\ UNCHANGED << now, ticks, calls, gathered, scope, disk, bak, loading,
                    saves, restarts, faults, purge_cooldowns, purging >>

(* ----------------------------- persistence ----------------------------- *)

\* datetime.timestamp() and datetime.fromtimestamp(x, tz=UTC): the clock
\* counts minutes, a file holds seconds.
Timestamp(t) == t * 60
FromTimestamp(x) == x \div 60

\* dataclasses.asdict: the dict of an object's fields, as (field, value)
\* pairs; and the lookup obj[f] the from_obj functions do.
AsDict(o) == { << f, o[f] >> : f \in DOMAIN o }
Get(d, f) == (CHOOSE p \in d : p[1] = f)[2]

\* The from_obj of the class a category holds.
FromObj(c, d) ==
    IF c \in { IMAGE_DESCRIPTIONS, RECORD_CONTENTS, FULL_IMAGE_DESCRIPTIONS,
               FULL_RECORD_CONTENTS }
    THEN Text(Get(d, "name"), Get(d, "v"), Get(d, "title"))
    ELSE Item(Get(d, "name"), Get(d, "v"))

\* What save_cache writes for an entry's value, and what load_cache makes of
\* it: the two gathered collections are dicts of objects, converted member
\* by member.
ToJson(c, val) ==
    IF c \in { FULL_RECORD_CONTENTS, FULL_IMAGE_DESCRIPTIONS }
    THEN [ n \in DOMAIN val |-> AsDict(val[n]) ]
    ELSE AsDict(val)

FromJson(c, obj) ==
    IF c \in { FULL_RECORD_CONTENTS, FULL_IMAGE_DESCRIPTIONS }
    THEN [ n \in DOMAIN obj |-> FromObj(c, obj[n]) ]
    ELSE FromObj(c, obj)

\* The delimiter of a written search key.
Bar == "|"

\* str.rindex of the delimiter (0: not found, ValueError).
RIndex(q) ==
    IF \E i \in 1 .. Len(q) : q[i] = Bar
    THEN CHOOSE i \in 1 .. Len(q) :
            q[i] = Bar /\ \A j \in (i + 1) .. Len(q) : q[j] # Bar
    ELSE 0

\* A key decoder that cuts at the first delimiter.
SplitKey_First(j) ==
    LET i == IF \E x \in 1 .. Len(j) : j[x] = Bar
             THEN CHOOSE x \in 1 .. Len(j) :
                     j[x] = Bar /\ \A y \in 1 .. (x - 1) : j[y] # Bar
             ELSE 0
    IN  << SubSeq(j, 1, i - 1), SubSeq(j, i + 1, Len(j)) >>

\* (i[: i.rindex("|")], i[i.rindex("|") + 1 :])
SplitKey(j) ==
    << SubSeq(j, 1, RIndex(j) - 1), SubSeq(j, RIndex(j) + 1, Len(j)) >>

\* The categories whose None key is written as "__None__".
AliasCaches == { IMAGES, SKETCHES, RECORDS, RECORD_CONTENTS }
NoneKey == "__None__"

\* A key writer that leaves the None key to json.dumps, which writes "null".
SaveKey_NoAlias(c, k) ==
    CASE c \in AliasCaches -> IF k = None THEN "null" ELSE k
      [] c = SEARCH_RESULTS -> k[1] \o << Bar >> \o k[2]
      [] c = SPLASH_PAGES -> Str(k)
      [] OTHER -> k

\* The key save_cache writes for a cache key (json.dumps turns an int key
\* into its decimal string).
SaveKey(c, k) ==
    CASE c \in AliasCaches -> IF k = None THEN NoneKey ELSE k
      [] c = SEARCH_RESULTS -> k[1] \o << Bar >> \o k[2]
      [] c = SPLASH_PAGES -> Str(k)
      [] OTHER -> k

\* The cache key load_cache makes of a key of the file.
LoadKey(c, j) ==
    CASE c \in AliasCaches -> IF j = NoneKey THEN None ELSE j
      [] c = SEARCH_RESULTS -> SplitKey(j)
      [] c = SPLASH_PAGES -> ParseInt(j)
      [] OTHER -> j

\* Whether load_cache's key conversion raises (rindex finds no delimiter).
KeyFails(c, j) == c = SEARCH_RESULTS /\ RIndex(j) = 0

\* The metadata save_cache writes: a timestamp that is None is left out
\* (NoTime here), the purge times go under their category's value.
MetadataBody(s) ==
    [ last_all_images_cache |->
        IF s.last_all_images_cache = NoTime THEN NoTime
        ELSE Timestamp(s.last_all_images_cache),
      last_all_sketches_cache |->
        IF s.last_all_sketches_cache = NoTime THEN NoTime
        ELSE Timestamp(s.last_all_sketches_cache),
      last_full_episodic_cache |->
        IF s.last_full_episodic_cache = NoTime THEN NoTime
        ELSE Timestamp(s.last_full_episodic_cache),
      last_cache_purge |->
        [ c \in DOMAIN s.last_cache_purge |->
            Timestamp(s.last_cache_purge[c]) ] ]

\* The match statement of save_cache: the JSON body of a category, or the
\* failure of cache_contents[0] on a singleton that is None.
SaveBody(s, c) ==
    IF c = CACHE_METADATA THEN [ ok |-> TRUE, body |-> MetadataBody(s) ]
    ELSE LET m == s.cached[c]
         IN  IF c \in SingletonCaches /\ DOMAIN m = {}
             THEN [ ok |-> FALSE, body |-> EmptyMap ]
             ELSE [ ok |-> TRUE,
                    body |->
                      [ j \in { SaveKey(c, k) : k \in DOMAIN m } |->
                          LET k == CHOOSE x \in DOMAIN m : SaveKey(c, x) = j
                          IN  << ToJson(c, m[k].val), Timestamp(m[k].at) >> ] ]

\* The metadata arm of load_cache: the four fields are assigned as read,
\* the three timestamps are converted, then the purge dict is rebuilt; a
\* purge key that names no category raises ValueError there.
LoadMetadata(s, b) ==
    LET s1 == [ s EXCEPT
                  !.last_all_images_cache =
                     IF b.last_all_images_cache = NoTime THEN NoTime
                     ELSE FromTimestamp(b.last_all_images_cache),
                  !.last_all_sketches_cache =
                     IF b.last_all_sketches_cache = NoTime THEN NoTime
                     ELSE FromTimestamp(b.last_all_sketches_cache),
                  !.last_full_episodic_cache =
                     IF b.last_full_episodic_cache = NoTime THEN NoTime
                     ELSE FromTimestamp(b.last_full_episodic_cache) ]
    IN  IF DOMAIN b.last_cache_purge \subseteq CacheTypes
        THEN [ s |-> [ s1 EXCEPT !.last_cache_purge =
                         [ c \in DOMAIN b.last_cache_purge |->
                             FromTimestamp(b.last_cache_purge[c]) ] ],
               outcome |-> "loaded" ]
        ELSE [ s |-> [ s1 EXCEPT !.last_cache_purge = b.last_cache_purge ],
               outcome |-> "failed" ]

\* A load that discards the entries that are stale by now.
LoadCache_Fresh(s, c, f) ==
    IF ~f.exists THEN [ s |-> s, outcome |-> "absent" ]
    ELSE IF ~f.ok THEN [ s |-> s, outcome |-> "failed" ]
    ELSE IF c = CACHE_METADATA THEN LoadMetadata(s, f.body)
    ELSE IF \E j \in DOMAIN f.body : KeyFails(c, j)
    THEN [ s |-> s, outcome |-> "failed" ]
    ELSE [ s |-> [ s EXCEPT !.cached[c] =
                     [ k \in { LoadKey(c, j) :
                                 j \in { x \in DOMAIN f.body :
                                           ~IsStale(c, FromTimestamp(f.body[x][2]),
                                                    now) } } |->
                         LET j == CHOOSE x \in DOMAIN f.body :
                                     LoadKey(c, x) = k
                         IN  Entry(FromJson(c, f.body[j][1]),
                                   FromTimestamp(f.body[j][2])) ] ],
           outcome |-> "loaded" ]

\* load_cache(cache) on the file f: the store it leaves and how it ended
\* (it raises nothing: every exception is logged).
LoadCache(s, c, f) ==
    IF ~f.exists THEN [ s |-> s, outcome |-> "absent" ]
    ELSE IF ~f.ok THEN [ s |-> s, outcome |-> "failed" ]
    ELSE IF c = CACHE_METADATA THEN LoadMetadata(s, f.body)
    ELSE IF \E j \in DOMAIN f.body : KeyFails(c, j)
    THEN [ s |-> s, outcome |-> "failed" ]
    ELSE [ s |-> [ s EXCEPT !.cached[c] =
                     [ k \in { LoadKey(c, j) : j \in DOMAIN f.body } |->
                         LET j == CHOOSE x \in DOMAIN f.body :
                                     LoadKey(c, x) = k
                         IN  Entry(FromJson(c, f.body[j][1]),
                                   FromTimestamp(f.body[j][2])) ] ],
           outcome |-> "loaded" ]

\* The fields of a new object, before load_all_caches has run.
FreshStore ==
    [ cached |-> [ c \in DataCaches |-> EmptyMap ],
      last_all_images_cache |-> NoTime,
      last_all_sketches_cache |-> NoTime,
      last_full_episodic_cache |-> NoTime,
      last_cache_purge |-> [ c \in {} |-> 0 ],
      cache_saved |-> [ c \in CacheTypes |-> TRUE ] ]

\* The step record of a save_cache or load_cache step.
FileStep(op, c, outcome) ==
    [ NoStep EXCEPT !.op = op, !.cache = c, !.outcome = outcome, !.t = now ]

\* save_cache from its match statement to the open it awaits: the body is
\* built from the fields as they are now; an exception ends the coroutine
\* in the except clause, which logs it.
Serialised(t, c) ==
    LET r == SaveBody(Store, c)
    IN  IF r.ok
        THEN /\ task' = [ task EXCEPT ![t] =
                            [ NoTask EXCEPT !.op = "save_cache", !.arg = c,
                                            !.pc = "open", !.tmp = r.body ] ]
             /\ last' = FileStep("save_cache", c, "serialised")
        ELSE /\ task' = [ task EXCEPT ![t] = NoTask ]
             /\ last' = FileStep("save_cache", c, "failed")

\* A save that skips the test of the saved flag.
save_cache_Always(t, c) ==
    /\ c \in scope
    /\ FreeSlot(t)
    /\ saves < MaxSaves
    /\ saves' = saves + 1
    /\ IF disk[c].exists
       THEN /\ task' = [ task EXCEPT ![t] =
                           [ NoTask EXCEPT !.op = "save_cache", !.arg = c,
                                           !.pc = "rotate" ] ]
            /\ last' = FileStep("save_cache", c, "rotating")
       ELSE Serialised(t, c)
    /\ StoreUnchanged
    /\ UNCHANGED << now, ticks, calls, gathered, scope, disk, bak, loading,
                    restarts, faults, purge_cooldowns, purging >>

\* save_cache(cache) is called: it returns at once if the category is
\* saved; else it awaits the rotation of the file that exists, or goes on
\* to build the body.
save_cache(t, c) ==
    /\ c \in scope
    /\ FreeSlot(t)
    /\ saves < MaxSaves
    /\ saves' = saves + 1
    /\ IF cache_saved[c]
       THEN /\ task' = task
            /\ last' = FileStep("save_cache", c, "already saved")
       ELSE IF disk[c].exists
       THEN /\ task' = [ task EXCEPT ![t] =
                           [ NoTask EXCEPT !.op = "save_cache", !.arg = c,
                                           !.pc = "rotate" ] ]
            /\ last' = FileStep("save_cache", c, "rotating")
       ELSE Serialised(t, c)
    /\ StoreUnchanged
    /\ UNCHANGED << now, ticks, calls, gathered, scope, disk, bak, loading,
                    restarts, faults, purge_cooldowns, purging >>

\* os.replace(cache_path, cache_path + ".bak") returns: the file is now the
\* backup and the path is empty (the call raises if another save has moved
\* the file away meanwhile); then the body is built.
save_rotated(t) ==
    /\ task[t].op = "save_cache"
    /\ task[t].pc = "rotate"
    /\ LET c == task[t].arg
       IN  IF disk[c].exists
           THEN /\ bak' = [ bak EXCEPT ![c] = disk[c] ]
                /\ disk' = [ disk EXCEPT ![c] = NoFile ]
                /\ Serialised(t, c)
           ELSE /\ task' = [ task EXCEPT ![t] = NoTask ]
                /\ last' = FileStep("save_cache", c, "failed")
                /\ UNCHANGED << disk, bak >>
    /\ StoreUnchanged
    /\ UNCHANGED << now, ticks, calls, gathered, scope, loading, saves,
                    restarts, faults, purge_cooldowns, purging >>

\* aiofiles.open(cache_path, "w") returns: the file exists and is empty.
save_opened(t) ==
    /\ task[t].op = "save_cache"
    /\ task[t].pc = "open"
    /\ disk' = [ disk EXCEPT ![task[t].arg] = JunkFile ]
    /\ task' = [ task EXCEPT ![t].pc = "write" ]
    /\ last' = FileStep("save_cache", task[t].arg, "opened")
    /\ StoreUnchanged
    /\ UNCHANGED << now, ticks, calls, gathered, scope, bak, loading, saves,
                    restarts, faults, purge_cooldowns, purging >>

\* f.write(json.dumps(cache_contents)) returns and the file is closed: the
\* file holds the body built before the open, and the category is marked
\* saved.
save_written(t) ==
    /\ task[t].op = "save_cache"
    /\ task[t].pc = "write"
    /\ LET c == task[t].arg
       IN  /\ disk' = [ disk EXCEPT ![c] = JsonFile(task[t].tmp) ]
           /\ SetStore([ Store EXCEPT !.cache_saved[c] = TRUE ])
           /\ last' = FileStep("save_cache", c, "saved")
    /\ task' = [ task EXCEPT ![t] = NoTask ]
    /\ UNCHANGED << now, ticks, calls, gathered, scope, bak, loading, saves,
                    restarts, faults, purge_cooldowns, purging >>

\* A failure path that marks the category saved all the same.
save_failed_Saved(t) ==
    /\ task[t].op = "save_cache"
    /\ task[t].pc \in { "rotate", "open", "write" }
    /\ faults < MaxFaults
    /\ faults' = faults + 1
    /\ task' = [ task EXCEPT ![t] = NoTask ]
    /\ last' = FileStep("save_cache", task[t].arg, "failed")
    /\ SetStore([ Store EXCEPT !.cache_saved[task[t].arg] = TRUE ])
    /\ UNCHANGED << now, ticks, calls, gathered, scope, disk, bak, loading,
                    saves, restarts, purge_cooldowns, purging >>

\* The operation a save awaits raises OSError (disk full, no permission):
\* the except clause logs it and save_cache returns.
save_failed(t) ==
    /\ task[t].op = "save_cache"
    /\ task[t].pc \in { "rotate", "open", "write" }
    /\ faults < MaxFaults
    /\ faults' = faults + 1
    /\ task' = [ task EXCEPT ![t] = NoTask ]
    /\ last' = FileStep("save_cache", task[t].arg, "failed")
    /\ StoreUnchanged
    /\ UNCHANGED << now, ticks, calls, gathered, scope, disk, bak, loading,
                    saves, restarts, purge_cooldowns, purging >>

\* The process is stopped and started again: a new object, whose __init__
\* schedules load_all_caches (one load_cache per category) and marks every
\* category saved.
restart ==
    /\ restarts < MaxRestarts
    /\ \A t \in Tasks : task[t].pc = "free"
    /\ restarts' = restarts + 1
    /\ SetStore(FreshStore)
    /\ loading' = scope
    /\ gathered' = {}
    /\ last' = FileStep("restart", None, OK)
    /\ UNCHANGED << now, ticks, calls, task, scope, disk, bak, saves,
                    faults, purge_cooldowns, purging >>

\* One load_cache(cache) of load_all_caches' TaskGroup runs to its end.
load_cache(c) ==
    /\ c \in loading
    /\ LET r == LoadCache(Store, c, disk[c])
       IN  /\ SetStore(r.s)
           /\ last' = FileStep("load_cache", c, r.outcome)
    /\ loading' = loading \ { c }
    /\ UNCHANGED << now, ticks, calls, task, gathered, scope, disk, bak,
                    saves, restarts, faults, purge_cooldowns, purging >>

\* A purge record under a name that is no category's value.
BadPurgeRecord == [ x \in { "bogus" } |-> 0 ]

\* Between two runs, a saved file is damaged: cut short, or (the metadata)
\* edited so that a purge record names no category.
file_damaged(c, cut) ==
    /\ c \in scope
    /\ faults < MaxFaults
    /\ \A t \in Tasks : task[t].pc = "free"
    /\ loading = {}
    /\ disk[c].exists /\ disk[c].ok
    /\ faults' = faults + 1
    /\ disk' = [ disk EXCEPT ![c] =
                   IF cut \/ c # CACHE_METADATA THEN JunkFile
                   ELSE JsonFile([ disk[c].body EXCEPT
                                     !.last_cache_purge = BadPurgeRecord ]) ]
    /\ last' = FileStep("file_damaged", c, OK)
    /\ StoreUnchanged
    /\ UNCHANGED << now, ticks, calls, task, gathered, scope, bak, loading,
                    saves, restarts, purge_cooldowns, purging >>

\* The command's last statement, reached when its TaskGroup is left without
\* an exception or with the CachePurgeError it handles: save_all_caches runs
\* save_cache for every category.
save_all_caches(t, c) ==
    /\ \A u \in Tasks : task[u].op \in { "none", "save_cache" }
    /\ save_cache(t, c)

\* A failure path that caches the failure: an empty entry under the key.
request_failed_cached(t) ==
    /\ Requesting(t)
    /\ task' = [ task EXCEPT ![t] =
                   Ended(t, "failed", NoItem, "ClientError", NoTime) ]
    /\ last' = TaskStep(task[t].op, OpCache(task[t].op), task[t].arg,
                         "failed", NoItem)
    /\ SetStore(StoreFetched(Store, OpCache(task[t].op), task[t].arg,
                              Item(task[t].arg, 0), now))
    /\ UNCHANGED << now, ticks, calls, gathered, scope, disk, bak, loading, saves, restarts, faults, purge_cooldowns, purging >>

\* An upstream request fails (ClientError, raise_for_status): no function
\* catches it, so it ends the coroutine that awaits it.  If that is a child
\* of a TaskGroup, the group cancels the other children and raises in the
\* gather, which ends without a commit.
request_failed(t) ==
    /\ Requesting(t)
    /\ task' = [ u \in Tasks |->
                   IF u = t \/ ( task[t].parent # 0 /\
                                 ( u = task[t].parent \/
                                   task[u].parent = task[t].parent ) )
                   THEN NoTask ELSE task[u] ]
    /\ last' = TaskStep(task[t].op, OpCache(task[t].op), task[t].arg,
                         "failed", NoItem)
    /\ StoreUnchanged
    /\ UNCHANGED << now, ticks, calls, gathered, scope, disk, bak, loading, saves, restarts, faults, purge_cooldowns, purging >>

(* --------------------------- specifications ---------------------------- *)

\* Single-entry fetches, reads and purges of one category at a time.
FetchScopes ==
    { { NEWS_ITEMS }, { IMAGES }, { RECORDS }, { IMAGE_DESCRIPTIONS } }

Init == Constructed /\ scope \in FetchScopes

Next ==
    \/ Tick
    \/ \E c \in CacheTypes, f \in BOOLEAN : get_cached_items(c, f)
    \/ \E t \in Tasks : get_all_news(t)
    \/ \E t \in Tasks, v \in Vers : get_all_news_resp(t, v)
    \/ \E t \in Tasks, k \in Names \cup { None } : get_single_image(t, k)
    \/ \E t \in Tasks, v \in Vers : get_single_image_resp(t, v)
    \/ \E t \in Tasks, k \in Names \cup { None } : get_single_record(t, k)
    \/ \E t \in Tasks, v \in Vers : get_single_record_resp(t, v)
    \/ \E t \in Tasks, k \in Names : get_image_description(t, k)
    \/ \E t \in Tasks, v \in Vers : get_image_description_resp(t, v)
    \/ \E t \in Tasks, v \in Vers : get_image_description_image_resp(t, v)
    \/ \E t \in Tasks : request_failed(t)

Spec == Init /\ [][Next]_vars

\* Purges of one category at a time, any category, with the fetches that
\* fill it.
PurgeScopes == { { c } : c \in CacheTypes }

InitPurge == Constructed /\ scope \in PurgeScopes

NextPurge ==
    \/ Tick
    \/ \E c \in CacheTypes, f \in BOOLEAN : purge_cache(c, f)
    \/ \E t \in Tasks : get_all_news(t)
    \/ \E t \in Tasks, v \in Vers : get_all_news_resp(t, v)
    \/ \E t \in Tasks, k \in Names \cup { None } : get_single_image(t, k)
    \/ \E t \in Tasks, v \in Vers : get_single_image_resp(t, v)
    \/ \E t \in Tasks, k \in Names \cup { None } : get_single_sketch(t, k)
    \/ \E t \in Tasks, v \in Vers : get_single_sketch_resp(t, v)
    \/ \E t \in Tasks, k \in Names \cup { None } : get_single_record(t, k)
    \/ \E t \in Tasks, v \in Vers : get_single_record_resp(t, v)

SpecPurge == InitPurge /\ [][NextPurge]_vars

\* The two gathers, one kind at a time, with the children they run.
GatherScopes == { { FULL_RECORD_CONTENTS }, { FULL_IMAGE_DESCRIPTIONS } }

\* The payloads of the members' texts.
TextVers == { 1 }

\* The sets of records the site may mark solved.
SolvedSets == { { "a" }, { "a", "b" } }

InitGather == Constructed /\ scope \in GatherScopes

NextGather ==
    \/ Tick
    \/ \E t \in Tasks, g \in GatherModes : get_full_image_descriptions(t, g)
    \/ \E t \in Tasks, v \in Vers :
          get_full_image_descriptions_images_resp(t, v)
    \/ \E t \in Tasks, k \in Names : get_image_description(t, k)
    \/ \E t \in Tasks, v \in TextVers : get_image_description_resp(t, v)
    \/ \E t \in Tasks, v \in TextVers : get_image_description_image_resp(t, v)
    \/ \E t \in Tasks, g \in GatherModes : get_full_record_contents(t, g)
    \/ \E t \in Tasks, v \in Vers, solved \in SolvedSets :
          get_full_record_contents_episodic_resp(t, v, solved)
    \/ \E t \in Tasks, k \in Names : get_record_text(t, k)
    \/ \E t \in Tasks, v \in TextVers : get_record_text_resp(t, v)
    \/ \E t \in Tasks, v \in TextVers : get_record_text_record_resp(t, v)
    \/ \E t \in Tasks : gather_commit(t)
    \/ \E t \in Tasks : request_failed(t)

SpecGather == InitGather /\ [][NextGather]_vars

\* The kinds of key a category has: the one entry of a singleton, names
\* with the alias, page numbers, (term, type) pairs.
KeyKinds == { { NEWS_ITEMS }, { IMAGES }, { SPLASH_PAGES }, { SEARCH_RESULTS } }

\* Saves of one category at a time, with the fetches and purges that change
\* it and the failures of the operations a save awaits.
InitSave == Constructed /\ scope \in KeyKinds

NextSave ==
    \/ \E c \in CacheTypes : purge_cache(c, FALSE)
    \/ \E t \in Tasks : get_all_news(t)
    \/ \E t \in Tasks, v \in Vers : get_all_news_resp(t, v)
    \/ \E t \in Tasks, k \in Names \cup { None } : get_single_image(t, k)
    \/ \E t \in Tasks, v \in Vers : get_single_image_resp(t, v)
    \/ \E t \in Tasks, page \in Pages : get_paged_splashes(t, page)
    \/ \E t \in Tasks, v \in Vers : get_paged_splashes_resp(t, v)
    \/ \E t \in Tasks, term \in Terms, type_ \in SearchTypes :
          get_domain_search(t, term, type_)
    \/ \E t \in Tasks, v \in Vers : get_domain_search_resp(t, v)
    \/ \E t \in Tasks, c \in CacheTypes : save_cache(t, c)
    \/ \E t \in Tasks : save_rotated(t)
    \/ \E t \in Tasks : save_opened(t)
    \/ \E t \in Tasks : save_written(t)
    \/ \E t \in Tasks : save_failed(t)

SpecSave == InitSave /\ [][NextSave]_vars

\* One category across a restart: what was fetched and saved in one run is
\* loaded and read in the next, as time passes.
InitRestart == Constructed /\ scope \in KeyKinds

NextRestart ==
    \/ Idle
    \/ \E c \in CacheTypes, f \in BOOLEAN : get_cached_items(c, f)
    \/ \E t \in Tasks : get_all_news(t)
    \/ \E t \in Tasks, v \in TextVers : get_all_news_resp(t, v)
    \/ \E t \in Tasks, k \in Names \cup { None } : get_single_image(t, k)
    \/ \E t \in Tasks, v \in TextVers : get_single_image_resp(t, v)
    \/ \E t \in Tasks, page \in Pages : get_paged_splashes(t, page)
    \/ \E t \in Tasks, v \in TextVers : get_paged_splashes_resp(t, v)
    \/ \E t \in Tasks, term \in Terms, type_ \in SearchTypes :
          get_domain_search(t, term, type_)
    \/ \E t \in Tasks, v \in TextVers : get_domain_search_resp(t, v)
    \/ \E t \in Tasks, c \in CacheTypes : save_cache(t, c)
    \/ \E t \in Tasks : save_rotated(t)
    \/ \E t \in Tasks : save_opened(t)
    \/ \E t \in Tasks : save_written(t)
    \/ restart
    \/ \E c \in CacheTypes : load_cache(c)

SpecRestart == InitRestart /\ [][NextRestart]_vars

\* The images with their gather timestamp and the purge records: the
\* fetch-all, the purges of the two kinds that share the images' field, the
\* saves, the damage a file may take, and the loads of the next run.
MetaScopes == { { IMAGES, SKETCHES, CACHE_METADATA } }

InitMeta == Constructed /\ scope \in MetaScopes

NextMeta ==
    \/ Idle
    \/ \E c \in CacheTypes : purge_cache(c, FALSE)
    \/ \E t \in Tasks : get_all_images(t)
    \/ \E t \in Tasks, v \in TextVers : get_all_images_resp(t, v)
    \/ \E t \in Tasks, c \in CacheTypes : save_cache(t, c)
    \/ \E t \in Tasks : save_rotated(t)
    \/ \E t \in Tasks : save_opened(t)
    \/ \E t \in Tasks : save_written(t)
    \/ restart
    \/ \E c \in CacheTypes : load_cache(c)
    \/ \E c \in CacheTypes, cut \in BOOLEAN : file_damaged(c, cut)

SpecMeta == InitMeta /\ [][NextMeta]_vars

\* The news scenario from its second fetch on: an earlier fetch stored the
\* news at time 0 and a save wrote them to their file; the clock stands
\* within the entry's duration, where a fetch still returns the cached
\* value; no purge has been made.
ScenarioStarts == { 1, CACHE_DURATION[NEWS_ITEMS] }

InitScenario ==
    /\ scope = { NEWS_ITEMS }
    /\ now \in ScenarioStarts
    /\ ticks = 0
    /\ calls = 0
    /\ \E v \in Vers :
          /\ cached = [ c \in DataCaches |->
                          IF c = NEWS_ITEMS
                          THEN Put(EmptyMap, Single, Entry(Item(Single, v), 0))
                          ELSE EmptyMap ]
          /\ disk = [ c \in CacheTypes |->
                        IF c = NEWS_ITEMS
                        THEN JsonFile(SaveBody([ FreshStore EXCEPT
                                 !.cached[NEWS_ITEMS] =
                                    Put(EmptyMap, Single,
                                        Entry(Item(Single, v), 0)) ],
                               NEWS_ITEMS).body)
                        ELSE NoFile ]
    /\ last_all_images_cache = NoTime
    /\ last_all_sketches_cache = NoTime
    /\ last_full_episodic_cache = NoTime
    /\ last_cache_purge = [ c \in {} |-> 0 ]
    /\ cache_saved = [ c \in CacheTypes |-> TRUE ]
    /\ task = [ t \in Tasks |-> NoTask ]
    /\ last = NoStep
    /\ gathered = {}
    /\ bak = [ c \in CacheTypes |-> NoFile ]
    /\ loading = {}
    /\ saves = 0
    /\ restarts = 0
    /\ faults = 0
    /\ purge_cooldowns = EmptyMap
    /\ purging = {}

NextScenario ==
    \/ Tick
    \/ \E f \in BOOLEAN : purge_cache(NEWS_ITEMS, f)
    \/ \E t \in Tasks : get_all_news(t)
    \/ \E t \in Tasks, v \in Vers : get_all_news_resp(t, v)
    \/ \E t \in Tasks : request_failed(t)

SpecScenario == InitScenario /\ [][NextScenario]_vars

\* The reads: the news or the images with the metadata, the fetches and
\* purges that change what a read reports, and the callers that only read.
StatusScopes ==
    { { NEWS_ITEMS, CACHE_METADATA }, { IMAGES, CACHE_METADATA } }

InitStatus == Constructed /\ scope \in StatusScopes

NextStatus ==
    \/ Tick
    \/ \E c \in CacheTypes, f \in BOOLEAN : get_cached_items(c, f)
    \/ single_image_name
    \/ \E c \in CacheTypes, f \in BOOLEAN : purge_cache(c, f)
    \/ \E t \in Tasks : get_all_news(t)
    \/ \E t \in Tasks, v \in TextVers : get_all_news_resp(t, v)
    \/ \E t \in Tasks : get_single_image(t, None)
    \/ \E t \in Tasks, v \in TextVers : get_single_image_resp(t, v)
    \/ \E t \in Tasks : get_all_images(t)
    \/ \E t \in Tasks, v \in TextVers : get_all_images_resp(t, v)
    \/ \E t \in Tasks : request_failed(t)

SpecStatus == InitStatus /\ [][NextStatus]_vars

\* The pictures of the images: the fetch of a picture with the fetch of its
\* item, and the purges of the categories that hold them.
ContentScopes == { { IMAGES, SKETCHES, IMAGE_CONTENTS } }

InitContents == Constructed /\ scope \in ContentScopes

NextContents ==
    \/ Tick
    \/ \E c \in CacheTypes, f \in BOOLEAN : purge_cache(c, f)
    \/ \E t \in Tasks, k \in Names \cup { None } : get_image_contents(t, k)
    \/ \E t \in Tasks, v \in TextVers : get_image_contents_image_resp(t, v)
    \/ \E t \in Tasks, v \in TextVers : get_image_contents_resp(t, v)
    \/ \E t \in Tasks : request_failed(t)

SpecContents == InitContents /\ [][NextContents]_vars

\* The gather command: both collections in use, gathered only by the
\* command, with the save that ends it; the clock advances between
\* commands, so a member's item is still fresh when its text arrives.
CommandScopes == { { FULL_RECORD_CONTENTS, FULL_IMAGE_DESCRIPTIONS } }

InitCommand == Constructed /\ scope \in CommandScopes

NextCommand ==
    \/ Idle
    \/ gather_all
    \/ \E t \in Tasks, v \in TextVers :
          get_full_image_descriptions_images_resp(t, v)
    \/ \E t \in Tasks, k \in Names : get_image_description(t, k)
    \/ \E t \in Tasks, v \in TextVers : get_image_description_resp(t, v)
    \/ \E t \in Tasks, v \in TextVers :
          get_full_record_contents_episodic_resp(t, v, { "a" })
    \/ \E t \in Tasks, k \in Names : get_record_text(t, k)
    \/ \E t \in Tasks, v \in TextVers : get_record_text_resp(t, v)
    \/ \E t \in Tasks : gather_commit(t)
    \/ \E t \in Tasks : gather_all_failed(t)
    \/ \E t \in Tasks, c \in CacheTypes : save_all_caches(t, c)
    \/ \E t \in Tasks : save_rotated(t)
    \/ \E t \in Tasks : save_opened(t)
    \/ \E t \in Tasks : save_written(t)

SpecCommand == InitCommand /\ [][NextCommand]_vars

\* The purge command as two users send it, one of them an admin, for one
\* category or for all, forced or not, while time passes.
ThrottleScopes == { { NEWS_ITEMS, IMAGES } }

InitThrottle == Constructed /\ scope \in ThrottleScopes

NextThrottle ==
    \/ Tick
    \/ \E u \in Users, c \in CacheTypes, f \in BOOLEAN : purge(u, c, f)
    \/ \E p \in PurgeCommands : purge_sent(p)
    \/ \E p \in PurgeCommands : purge_unsent(p)
    \/ \E u \in Users, f \in BOOLEAN : purge_all(u, f)

SpecThrottle == InitThrottle /\ [][NextThrottle]_vars

(* ------------------------------ claims --------------------------------- *)

\* The steps that are calls of a fetch, recorded in last.
IsFetchCall(step) == step.outcome \in { "request", "hit" }

\* C1: fetch calls for one (category, key) that overlap in time share one
\* upstream request: never are two requests for the same key of the same
\* category in flight.
C1_SingleFlight ==
    \A t, u \in Tasks :
        ( /\ t # u
          /\ task[t].pc = "request" /\ task[u].pc = "request"
          /\ task[t].op = task[u].op )
        => task[t].arg # task[u].arg

\* C2: a purge without force fails with "too soon" exactly when the category
\* has a purge record and now < last purge + cooldown, and the retry time it
\* reports is last purge + cooldown; a forced purge, and a purge at exactly
\* last purge + cooldown, of a purgeable category succeeds and records now.
C2_PurgeCooldown ==
    [] [ last'.op = "purge_cache" =>
           LET c == last'.cache
               limited == /\ ~last'.flag
                          /\ c \in DOMAIN last_cache_purge
                          /\ now < last_cache_purge[c] + CACHE_PURGE_COOLDOWN[c]
           IN  /\ last'.outcome = CACHE_PURGE <=> limited
               /\ limited =>
                    /\ last'.allowed
                         = last_cache_purge[c] + CACHE_PURGE_COOLDOWN[c]
                    /\ last_cache_purge' = last_cache_purge
               /\ ( ~limited /\ c \in DataCaches ) =>
                    /\ last'.outcome = OK
                    /\ last_cache_purge'[c] = now ]_vars

\* C2's case: the second of two purges within the cooldown was refused, with
\* the first purge's time + cooldown as the retry time.
C2_Witness ==
    /\ last.op = "purge_cache"
    /\ last.outcome = CACHE_PURGE
    /\ now > last_cache_purge[last.cache]
    /\ last.allowed
         = last_cache_purge[last.cache] + CACHE_PURGE_COOLDOWN[last.cache]

\* C3: a read that respects staleness (get_cached_items with
\* ignore_stale=False) returns exactly the entries with
\* now <= cache time + duration, each with its value; and a fetch call
\* takes an entry for stale exactly when now > cache time + duration.
C3_FreshRead ==
    /\ ( last.op = "get_cached_items" /\ ~last.flag
         /\ last.cache \in DataCaches )
       => LET m == cached[last.cache]
              fresh == { k \in DOMAIN m :
                           now <= m[k].at + CACHE_DURATION[last.cache] }
          IN  /\ last.outcome = OK
              /\ last.out = [ k \in fresh |-> Reported(last.cache, m[k]) ]
    /\ ( IsFetchCall(last) /\ last.key \in DOMAIN cached[last.cache] )
       => ( last.outcome = "request"
            <=> now > cached[last.cache][last.key].at
                        + CACHE_DURATION[last.cache] )

\* C4: a fetch for a key whose entry is fresh (now <= cache time + duration)
\* returns the cached value, starts no upstream request and changes neither
\* the entries nor the saved flags.
C4_FreshFetchIsHit ==
    [] [ IsFetchCall(last') =>
           LET c == last'.cache
               k == last'.key
           IN  ( /\ k \in DOMAIN cached[c]
                 /\ now <= cached[c][k].at + CACHE_DURATION[c] )
               => /\ last'.outcome = "hit"
                  /\ last'.val = cached[c][k].val
                  /\ \A t \in Tasks : Requesting(t)' => Requesting(t)
                  /\ cached' = cached
                  /\ cache_saved' = cache_saved ]_vars

\* C4's case: a fetch at exactly cache time + duration returned the value.
C4_Witness ==
    /\ last.outcome = "hit"
    /\ last.t = cached[last.cache][last.key].at + CACHE_DURATION[last.cache]
    /\ last.val = cached[last.cache][last.key].val

\* C5: a fetch whose upstream request fails raises to its caller and stores
\* nothing (entries and saved flags stay as they are), and a fetch of the
\* same key that follows, the entry still being missing or stale, sends a
\* new request.
C5_FailureNotCached ==
    [] [ /\ last'.outcome = "failed"
            => /\ cached' = cached
               /\ cache_saved' = cache_saved
               /\ \A t \in Tasks :
                    Requesting(t) /\ ~Requesting(t)' => task'[t] = NoTask
         /\ ( last'.retry
              /\ MissingOrStale(Store, last'.cache, last'.key, now) )
            => last'.outcome = "request" ]_vars

\* C5's case: after a failed fetch, the same fetch was called again and sent
\* a request.
C5_Witness == last.retry /\ last.outcome = "request"

\* C6: after a purge that returned, of any purgeable category, the category
\* holds no entries and its purge record is the time of that purge.
C6_PurgeEmpties ==
    ( last.op = "purge_cache" /\ last.outcome = OK )
    => /\ cached[last.cache] = EmptyMap
       /\ last_cache_purge[last.cache] = now

\* The gathered collections, and the category of each one's members.
FullCaches == { FULL_RECORD_CONTENTS, FULL_IMAGE_DESCRIPTIONS }
MemberCache(full) ==
    IF full = FULL_RECORD_CONTENTS THEN RECORD_CONTENTS
    ELSE IMAGE_DESCRIPTIONS

\* C7: a gathered collection and its timestamp are committed only after every
\* member fetch has returned: the step that commits belongs to a gather all
\* of whose children are done, the collection holds the children's results,
\* its timestamp is the time of the commit and no member's entry is younger;
\* and when a member fetch fails, the gather ends and nothing is committed.
C7_CommitAfterMembers ==
    [] [ /\ \A f \in FullCaches :
              ( cached'[f] # cached[f] /\ Single \in DOMAIN cached'[f] )
              => \E p \in Tasks :
                   LET coll == cached'[f][Single].val
                   IN  /\ task[p].pc = "group"
                       /\ OpCache(task[p].op) = f
                       /\ task'[p] = NoTask
                       /\ \A u \in Tasks :
                            task[u].parent = p
                            => /\ task[u].pc = "done"
                               /\ task[u].arg \in DOMAIN coll
                               /\ coll[task[u].arg] = task[u].res
                       /\ cached'[f][Single].at = now
                       /\ \A n \in DOMAIN coll :
                            n \in DOMAIN cached'[MemberCache(f)]
                            => cached'[MemberCache(f)][n].at
                                 <= cached'[f][Single].at
         /\ last'.outcome = "failed"
            => /\ \A f \in FullCaches : cached'[f] = cached[f]
               /\ \A u \in Tasks :
                    ( task[u].parent # 0 /\ Requesting(u) /\ ~Requesting(u)' )
                    => task'[task[u].parent] = NoTask ]_vars

\* C7's case: a gather of two members has committed, at a time later than a
\* member's fetch.
C7_Witness ==
    /\ last.op \in GatherOps
    /\ last.outcome = "stored"
    /\ Cardinality(DOMAIN last.out) = 2
    /\ cached[last.cache][Single].val = last.out
    /\ \E n \in DOMAIN last.out :
          /\ n \in DOMAIN cached[MemberCache(last.cache)]
          /\ cached[MemberCache(last.cache)][n].at
               < cached[last.cache][Single].at

\* C8: gather requests for one kind that overlap in time share one
\* execution: never are two executions of the same gather under way.
C8_SharedGather ==
    \A t, u \in Tasks :
        ( t # u /\ task[t].op \in GatherOps /\ task[u].op \in GatherOps )
        => task[t].op # task[u].op

\* C9: a gather with gather=True, called while a collection is held and
\* now < last purge of the collection + its cooldown, raises CachePurgeError
\* with allowed_time = last purge + cooldown, starts no request and leaves
\* the collection, all entries, the timestamps and the purge records as they
\* are.
C9_GatherCooldown ==
    [] [ ( /\ last'.op \in GatherOps
           /\ last'.gather = "True"
           /\ Single \in DOMAIN cached[last'.cache]
           /\ last'.cache \in DOMAIN last_cache_purge
           /\ now < last_cache_purge[last'.cache]
                      + CACHE_PURGE_COOLDOWN[last'.cache] )
         => /\ last'.outcome = CACHE_PURGE
            /\ last'.allowed = last_cache_purge[last'.cache]
                                 + CACHE_PURGE_COOLDOWN[last'.cache]
            /\ task' = task
            /\ cached' = cached
            /\ last_cache_purge' = last_cache_purge
            /\ last_all_images_cache' = last_all_images_cache
            /\ last_all_sketches_cache' = last_all_sketches_cache
            /\ last_full_episodic_cache' = last_full_episodic_cache ]_vars

\* C9's case: a minute or more after the gather's purge, with the collection
\* committed, a gather=True was refused.
C9_Witness ==
    /\ last.op \in GatherOps
    /\ last.gather = "True"
    /\ last.outcome = CACHE_PURGE
    /\ Single \in DOMAIN cached[last.cache]
    /\ now > last_cache_purge[last.cache]
    /\ last.allowed > now

\* C10 as claimed: a gather with gather=False raises ItemsUngatheredError
\* exactly when no gather of the kind has ever completed; once one has, it
\* returns a collection.
C10_NotGatheredOnlyBeforeFirst ==
    [] [ ( last'.op \in GatherOps /\ last'.gather = "False" )
         => ( last'.outcome = "ItemsUngatheredError"
              <=> last'.cache \notin gathered ) ]_vars

\* C10 as amended: a gather with gather=False raises ItemsUngatheredError
\* exactly when no collection is held or the held one is stale
\* (now > its time + duration); otherwise it returns the held collection;
\* either way it starts no request and changes nothing.
C10_NotGatheredIffStale ==
    [] [ ( last'.op \in GatherOps /\ last'.gather = "False" )
         => LET f == last'.cache
                stale == \/ Single \notin DOMAIN cached[f]
                         \/ now > cached[f][Single].at + CACHE_DURATION[f]
            IN  /\ last'.outcome = "ItemsUngatheredError" <=> stale
                /\ ~stale => /\ last'.outcome = "hit"
                             /\ last'.out = cached[f][Single].val
                /\ task' = task
                /\ cached' = cached
                /\ last_cache_purge' = last_cache_purge
                /\ cache_saved' = cache_saved ]_vars

\* C10's case: a gather had completed, its collection is still held but past
\* its duration, and a gather=False raised ItemsUngatheredError.
C10_Witness ==
    /\ last.op \in GatherOps
    /\ last.gather = "False"
    /\ last.outcome = "ItemsUngatheredError"
    /\ last.cache \in gathered
    /\ Single \in DOMAIN cached[last.cache]

\* C11: a gather with gather=False, whether it returns the collection or
\* raises ItemsUngatheredError, starts no request and changes no entry, no
\* collection, no timestamp, no purge record and no saved flag.
C11_ReadOnlyGatherFrame ==
    [] [ ( last'.op \in GatherOps /\ last'.gather = "False" )
         => /\ last'.outcome \in { "hit", "ItemsUngatheredError" }
            /\ \A t \in Tasks : Requesting(t)' => Requesting(t)
            /\ task' = task
            /\ Store' = Store ]_vars

\* C11's case: with a collection held and purge records present, a
\* gather=False returned the held collection.
C11_Witness ==
    /\ last.op \in GatherOps
    /\ last.gather = "False"
    /\ last.outcome = "hit"
    /\ last.out = cached[last.cache][Single].val
    /\ last.cache \in DOMAIN last_cache_purge
    /\ ~cache_saved[last.cache]

\* What a new object holds for category c after load_cache has read the
\* file a completed save of the store s writes.
SavedThenLoaded(s, c) ==
    LoadCache(FreshStore, c, JsonFile(SaveBody(s, c).body))

C13_SavedIsNoOp ==
    [] [ ( saves' = saves + 1 /\ cache_saved[last'.cache] )
         => /\ last'.outcome = "already saved"
            /\ disk' = disk
            /\ bak' = bak
            /\ task' = task ]_vars

\* A save has completed, and the next save of the category returned at
\* once: the file is the one written, and nothing was moved to the backup.
C13_Witness ==
    /\ last.op = "save_cache" /\ last.outcome = "already saved"
    /\ saves = 2
    /\ disk[last.cache].exists /\ disk[last.cache].ok
    /\ ~bak[last.cache].exists

\* C14: a save that fails at any step raises nothing and leaves the saved
\* flags as they are, so a category that was unsaved stays unsaved and the
\* next save does not return at once; a flag is set only by the step that
\* completes the write.
C14_FailedSaveStaysDirty ==
    [] [ /\ ( last'.op = "save_cache" /\ last'.outcome = "failed" )
            => /\ cache_saved' = cache_saved
               /\ \A t \in Tasks : task'[t].err = OK
         /\ ( saves' = saves + 1 /\ ~cache_saved[last'.cache] )
            => last'.outcome # "already saved"
         /\ \A c \in CacheTypes :
              ( ~cache_saved[c] /\ cache_saved'[c] )
                => /\ last'.op = "save_cache" /\ last'.outcome = "saved"
                   /\ last'.cache = c ]_vars

\* A save has failed with OSError, and its category is still unsaved.
C14_Witness ==
    /\ last.op = "save_cache" /\ last.outcome = "failed"
    /\ faults = 1
    /\ ~cache_saved[last.cache]

\* A file load_cache can read.
Loadable(f) == f.exists /\ f.ok

\* C15: saves are atomic: when a save attempt has ended, with success or
\* with a failure at any step, a category that had a file before (its
\* backup is that file) still has a file a load can read.
C15_AtomicSave ==
    [] [ ( /\ last'.op = "save_cache"
           /\ last'.outcome \in { "saved", "failed" }
           /\ Loadable(bak'[last'.cache]) )
         => Loadable(disk'[last'.cache]) ]_vars

\* C16: a load of a category whose file is absent or cannot be read or
\* parsed leaves every field as it was, the gather timestamps and the purge
\* records included.
C16_FailedLoadLoadsNothing ==
    [] [ ( last'.op = "load_cache" /\ last'.outcome \in { "absent", "failed" } )
         => Store' = Store ]_vars

\* C17: a load keeps every entry of the file whatever its age; and a read
\* with ignore_stale=True returns every entry, the stale ones too, while a
\* read that respects staleness returns no stale entry.
C17_StaleLoadedAndServed ==
    [] [ /\ ( last'.op = "load_cache" /\ last'.outcome = "loaded" )
            => DOMAIN cached'[last'.cache]
                 = { LoadKey(last'.cache, j) :
                       j \in DOMAIN disk[last'.cache].body }
         /\ ( last'.op = "get_cached_items" /\ last'.cache \in DataCaches )
            => LET c == last'.cache
               IN  \A k \in DOMAIN cached[c] :
                      IF last'.flag
                      THEN /\ k \in DOMAIN last'.out
                           /\ last'.out[k].val = cached[c][k].val
                      ELSE IsStale(c, cached[c][k].at, now)
                             => k \notin DOMAIN last'.out ]_vars

\* After a restart and with no request made since, a read with
\* ignore_stale=True has returned an entry that is past its duration.
C17_Witness ==
    /\ restarts = 1 /\ loading = {}
    /\ \A t \in Tasks : task[t].pc = "free"
    /\ last.op = "get_cached_items" /\ last.flag
    /\ last.cache \in DataCaches
    /\ \E k \in DOMAIN cached[last.cache] :
          /\ IsStale(last.cache, cached[last.cache][k].at, now)
          /\ k \in DOMAIN last.out

\* C18: the (term, type) keys of the search results survive a save and a
\* load: two keys that differ are written as keys that differ, each is read
\* back as itself, a term that holds the delimiter included, and every key
\* in the cache is a (term, type) pair that was searched for.
C18_SearchKeysSurvive ==
    /\ DOMAIN cached[SEARCH_RESULTS] \subseteq Terms \X SearchTypes
    /\ \A k1, k2 \in DOMAIN cached[SEARCH_RESULTS] :
          /\ LoadKey(SEARCH_RESULTS, SaveKey(SEARCH_RESULTS, k1)) = k1
          /\ k1 # k2 => SaveKey(SEARCH_RESULTS, k1) # SaveKey(SEARCH_RESULTS, k2)

\* The search results have been loaded in the next run: two entries, one
\* under a term that holds the delimiter.
C18_Witness ==
    /\ restarts = 1
    /\ last.op = "load_cache" /\ last.outcome = "loaded"
    /\ last.cache = SEARCH_RESULTS
    /\ Cardinality(DOMAIN cached[SEARCH_RESULTS]) = 2
    /\ \E k \in DOMAIN cached[SEARCH_RESULTS] : RIndex(k[1]) # 0

\* C19: every change of a category's entries, a put by a fetch or a clear
\* by a purge, leaves the category marked unsaved.
C19_MutationMarksDirty ==
    [] [ \A c \in DataCaches :
           cached'[c] # cached[c] => ~cache_saved'[c] ]_vars

\* C20: while the images' gather timestamp is fresh and no load is pending,
\* every image the gather stored is cached, with the alias.
C20_FreshStampHasMembers ==
    ( /\ loading = {}
      /\ last_all_images_cache # NoTime
      /\ ~IsStale(IMAGES, last_all_images_cache, now) )
    => Names \cup { None } \subseteq DOMAIN cached[IMAGES]

\* C21: the alias (None) entry of the images and of the records is the
\* entry under the name it resolved to, value and cache time: the two are
\* stored together by the fetch with no identifier and are refreshed
\* together afterwards.
C21_AliasInLockStep ==
    \A c \in { IMAGES, RECORDS } \cap scope :
        None \in DOMAIN cached[c]
          => /\ cached[c][None].val.name \in DOMAIN cached[c]
             /\ cached[c][cached[c][None].val.name] = cached[c][None]

\* The fetches that are neither a purge nor a gather.
FetchOps ==
    { "get_all_news", "get_single_image", "get_single_sketch",
      "get_single_record", "get_all_images", "get_full_episodic",
      "get_image_description", "get_record_text", "get_paged_splashes",
      "get_domain_search" }

\* C22: no step of a fetch changes a purge record: the purge cooldown of a
\* category runs only from an explicit purge or a gather.
C22_FetchKeepsPurgeClock ==
    [] [ last'.op \in FetchOps => last_cache_purge' = last_cache_purge ]_vars

\* The purge of the scenario: a purge of the news that is not forced, made
\* when no purge of the news was made before, the cached news were fetched
\* again after the start, and less than the cooldown has passed since that
\* fetch.
ScenarioPurge ==
    /\ last'.op = "purge_cache" /\ last'.cache = NEWS_ITEMS /\ ~last'.flag
    /\ NEWS_ITEMS \notin DOMAIN last_cache_purge
    /\ Single \in DOMAIN cached[NEWS_ITEMS]
    /\ cached[NEWS_ITEMS][Single].at > CACHE_DURATION[NEWS_ITEMS]
    /\ now < cached[NEWS_ITEMS][Single].at + CACHE_PURGE_COOLDOWN[NEWS_ITEMS]

\* C23 as stated: the purge made a minute after the fetch that refreshed the
\* news fails as too soon, with the fetch's time plus the cooldown as the
\* time from which it is allowed.
C23_PurgeAfterFetchTooSoon ==
    [] [ ScenarioPurge
         => /\ last'.outcome = CACHE_PURGE
            /\ last'.allowed = cached[NEWS_ITEMS][Single].at
                                 + CACHE_PURGE_COOLDOWN[NEWS_ITEMS] ]_vars

\* C23 as the code has it: no purge was made, so the purge succeeds: the
\* news are dropped and the purge is recorded at its own time.
C23_PurgeAfterFetchSucceeds ==
    [] [ ScenarioPurge
         => /\ last'.outcome = OK
            /\ cached'[NEWS_ITEMS] = EmptyMap
            /\ last_cache_purge' = Put(last_cache_purge, NEWS_ITEMS, now) ]_vars

\* The purge has succeeded within the cooldown of a fetch that stored the
\* news after they went stale (the category is unsaved since that fetch).
C23_Witness ==
    /\ last.op = "purge_cache" /\ last.cache = NEWS_ITEMS /\ ~last.flag
    /\ last.outcome = OK
    /\ ~cache_saved[NEWS_ITEMS]
    /\ now > CACHE_DURATION[NEWS_ITEMS]
    /\ now < CACHE_DURATION[NEWS_ITEMS] + CACHE_PURGE_COOLDOWN[NEWS_ITEMS]
    /\ last_cache_purge = Put(EmptyMap, NEWS_ITEMS, now)

ReadOps == { "get_cached_items", "single_image_name" }

\* C25: a read (get_cached_items with either ignore_stale, and the caller
\* that pops the alias from what it got) sends no request and starts no
\* coroutine, and leaves every entry, gather timestamp, purge record and
\* saved flag as it was, and the files too.
C25_ReadFrame ==
    [] [ last'.op \in ReadOps
           => /\ Store' = Store
              /\ task' = task
              /\ disk' = disk /\ bak' = bak ]_vars

\* A caller has popped the alias from the images it read, and the cache
\* still holds the alias; and the cache also holds something for the read
\* to copy.
C25_Witness ==
    /\ last.op = "single_image_name"
    /\ last.outcome = OK
    /\ None \notin DOMAIN last.out
    /\ DOMAIN last.out # {}
    /\ None \in DOMAIN cached[IMAGES]

\* C26: a read of the metadata succeeds in every state, also when a kind
\* was never gathered or a purge has reset its timestamp, and it reports
\* every recorded purge as (purge time, purge time + cooldown).
C26_StatusSucceeds ==
    ( last.op = "get_cached_items" /\ last.cache = CACHE_METADATA )
      => /\ last.outcome = OK
         /\ \A c \in DOMAIN last_cache_purge :
               /\ c \in DOMAIN last.out
               /\ last.out[c].at = last_cache_purge[c]
               /\ last.out[c].exp
                    = last_cache_purge[c] + CACHE_PURGE_COOLDOWN[c]

\* C27: when a save of a category finishes, the file holds the category as
\* it is now, or the category is still marked unsaved: what a fetch stored
\* while the save was suspended in its file operations is not lost.
C27_SaveKeepsLateMutation ==
    ( last.op = "save_cache" /\ last.outcome = "saved" )
      => \/ ~cache_saved[last.cache]
         \/ disk[last.cache] = JsonFile(SaveBody(Store, last.cache).body)

\* The ways a fetch's step can end: suspended in a request, returning the
\* cached or the fetched value, or raising the request's failure.
FetchOutcomes == { "request", "hit", "stored", "failed" }

\* C28: whatever purges run while a fetch is suspended in its requests, the
\* fetch, also one by the alias, ends by returning its value or by raising
\* the upstream failure, never with an internal error such as a KeyError.
C28_PurgeNeverBreaksFetch ==
    last.op = "get_image_contents" => last.outcome \in FetchOutcomes

\* C29: a purge that succeeds changes the entries of no category but the
\* one it was asked to purge: a purge of the sketches leaves the images as
\* they were, a purge of the sketch contents the image contents.
C29_PurgeFrame ==
    [] [ ( last'.op = "purge_cache" /\ last'.outcome = OK )
           => \A c \in DataCaches \ { last'.cache } :
                 cached'[c] = cached[c] ]_vars

\* C30: when the gather command answers "used too recently", it has
\* changed nothing: the collections, the members' entries, the gather
\* timestamps and the purge records are what they were before the command.
C30_RefusedCommandChangesNothing ==
    [] [ ( last'.op = "gather_all" /\ last'.outcome = CACHE_PURGE )
           => /\ cached' = cached
              /\ last_cache_purge' = last_cache_purge
              /\ last_all_images_cache' = last_all_images_cache
              /\ last_all_sketches_cache' = last_all_sketches_cache
              /\ last_full_episodic_cache' = last_full_episodic_cache ]_vars

\* C31: every step of the running process that changes a purge record or a
\* fetch-all timestamp (not the loads of a start, which read them from the
\* file) leaves the metadata marked unsaved, so the next save writes them.
C31_MetadataChangeMarksDirty ==
    [] [ ( /\ last'.op \notin { "restart", "load_cache" }
           /\ \/ last_cache_purge' # last_cache_purge
              \/ last_all_images_cache' # last_all_images_cache
              \/ last_all_sketches_cache' # last_all_sketches_cache
              \/ last_full_episodic_cache' # last_full_episodic_cache )
         => ~cache_saved'[CACHE_METADATA] ]_vars

\* The fetches that store one entry under the key they were called with.
KeyedFetchOps == { "get_single_image", "get_paged_splashes", "get_domain_search" }

\* C32: a fetch that stores the entry of one key leaves the entries of the
\* category's other keys as they were (but for the name an alias fetch
\* resolves to): fetching one splash page drops no other cached page.
C32_StoreKeepsOtherKeys ==
    [] [ ( last'.outcome = "stored" /\ last'.op \in KeyedFetchOps )
           => \A k \in DOMAIN cached[last'.cache] \ { last'.key } :
                 \/ /\ last'.op = "get_single_image"
                    /\ last'.key = None
                    /\ k = last'.val.name
                 \/ /\ k \in DOMAIN cached'[last'.cache]
                    /\ cached'[last'.cache][k] = cached[last'.cache][k] ]_vars

\* C33: a gather is refused with CachePurgeError only while a collection of
\* its kind is held; a gather that follows one that failed on a member,
\* which left no collection, goes on to fetch however recent the purge.
C33_RefusedOnlyWhileHeld ==
    [] [ ( last'.op \in GatherOps /\ last'.outcome = CACHE_PURGE )
           => Single \in DOMAIN cached[last'.cache] ]_vars

\* A gather has gone on to its index request although the purge of its
\* collection, recorded by an earlier gather that left no collection, is
\* still within its cooldown.
C33_Witness ==
    /\ last.op \in GatherOps
    /\ last.gather = "True"
    /\ last.outcome = "request"
    /\ Single \notin DOMAIN cached[last.cache]
    /\ last.cache \in DOMAIN last_cache_purge
    /\ last_cache_purge[last.cache] < now
    /\ now < last_cache_purge[last.cache] + CACHE_PURGE_COOLDOWN[last.cache]
    /\ Cardinality({ t \in Tasks : task[t].op \in GatherOps }) = 1

\* C34: a load of a category's file never replaces an entry a fetch of the
\* running process has stored with an older one: every key held before the
\* load's step is held after it, with a cache time that is no earlier.
C34_LoadKeepsFetched ==
    [] [ ( last'.op = "load_cache" /\ last'.cache \in DataCaches )
           => \A k \in DOMAIN cached[last'.cache] :
                 /\ k \in DOMAIN cached'[last'.cache]
                 /\ cached'[last'.cache][k].at >= cached[last'.cache][k].at ]_vars

\* C35: a purge that fails, refused for its cooldown or asked for a
\* category that cannot be purged, changes nothing: every entry, fetch-all
\* timestamp, purge record and saved flag is what it was.
C35_FailedPurgeChangesNothing ==
    [] [ ( last'.op = "purge_cache" /\ last'.outcome # OK )
           => Store' = Store /\ task' = task ]_vars

\* A purge of the images was refused for its cooldown while images, stored
\* by the fetch-all whose forced purge started the cooldown, are held and
\* unsaved.
C35_Witness ==
    /\ last.op = "purge_cache"
    /\ last.cache = IMAGES
    /\ last.outcome = CACHE_PURGE
    /\ None \in DOMAIN cached[IMAGES]
    /\ last_all_images_cache # NoTime
    /\ ~cache_saved[IMAGES]

\* C37: for every category that has both, the purge cooldown is strictly
\* shorter than the cache duration; each category is the one in use in some
\* behaviour.
C37_CooldownShorterThanDuration ==
    \A c \in scope \cap DOMAIN CACHE_PURGE_COOLDOWN \cap DOMAIN CACHE_DURATION :
        CACHE_PURGE_COOLDOWN[c] < CACHE_DURATION[c]

\* The time at which the bot data holds a purge of the category by the user.
RecordedPurge(pc, u, c) ==
    IF u \in DOMAIN pc /\ c \in DOMAIN pc[u] THEN pc[u][c] ELSE NoTime

\* C36: a non-forced purge command of a user calls purge_cache for a
\* category only if the bot data holds no purge of that category by that
\* user less than USER_PURGE_COOLDOWN ago; a forced one calls it only for an
\* admin; the user's purge of a category is recorded only after purge_cache
\* succeeded for it in a non-forced command of that user, and a refused
\* purge records nothing.
C36_UserThrottle ==
    [] [ /\ last'.op \in { "purge", "purge_all" }
            => \A c \in DOMAIN last'.out :
                  IF last'.flag
                  THEN last'.user \in BOT_ADMIN_USERS
                  ELSE \/ RecordedPurge(purge_cooldowns, last'.user, c) = NoTime
                       \/ now - RecordedPurge(purge_cooldowns, last'.user, c)
                             >= USER_PURGE_COOLDOWN
         /\ \A p \in purging' \ purging :
               /\ last'.op = "purge" /\ ~last'.flag
               /\ last'.user = p.user /\ last'.cache = p.cache
               /\ last'.out[p.cache] = OK
               /\ last_cache_purge'[p.cache] = now
         /\ \A u \in Users, c \in CacheTypes :
               RecordedPurge(purge_cooldowns', u, c)
                  # RecordedPurge(purge_cooldowns, u, c)
               => /\ last'.user = u
                  /\ RecordedPurge(purge_cooldowns', u, c) = now
                  /\ \/ /\ last'.op = "purge_sent" /\ last'.cache = c
                        /\ \E p \in purging : p.user = u /\ p.cache = c
                     \/ /\ last'.op = "purge_all" /\ ~last'.flag
                        /\ c \in DOMAIN last'.out
                        /\ last'.out[c] = OK ]_vars

\* A user whose purge of the news is recorded sends the command again within
\* USER_PURGE_COOLDOWN, after the cooldown of purge_cache has passed, and is
\* refused by the command: purge_cache is not called and the news stay.
C36_Witness ==
    /\ last.op = "purge"
    /\ ~last.flag
    /\ last.outcome = USER_COOLDOWN
    /\ last.out = EmptyMap
    /\ RecordedPurge(purge_cooldowns, last.user, last.cache) # NoTime
    /\ now >= last_cache_purge[last.cache] + CACHE_PURGE_COOLDOWN[last.cache]

====
